---- MODULE Spec2Model ----
(***************************************************************************)
(* Model of scripts/download_manager.py: the URL extractor, the URL        *)
(* classifier, the history ledger, the retry executor, the progress events  *)
(* of the provider downloaders, the dispatcher (download_video) and the     *)
(* batch loop of main().                                                    *)
(*                                                                          *)
(* URLs are strings, read character by character as the regular            *)
(* expressions of the source read them.  Every externally visible effect   *)
(* (a dispatch, a call made by the retry executor, a network request, a     *)
(* sleep, an emit_* call, a ledger write) is appended to `trace` in program *)
(* order; `trace` starts afresh with every call of download_video, while    *)
(* `events` and `dispatched` cover the whole run.  The emit_* calls recorded *)
(* are those of the machine-readable mode (JSON_PROGRESS set).              *)
(***************************************************************************)
EXTENDS Integers, Sequences, FiniteSets, TLC

VARIABLES
    urls,            \* main: the list `urls` (args.url or extract_urls_from_text)
    idx,             \* main: position of the for loop in `urls` (1-based)
    pc,              \* control position
    successful,      \* main: counter
    failed,          \* main: counter
    results,         \* return values of download_video, in call order
    exit_code,       \* argument of sys.exit, -1 while running
    skip_existing,   \* config['skip_existing']
    retry_attempts,  \* config['retry_attempts']
    retry_delay,     \* config['retry_delay']
    history,         \* DownloadManager.history (url -> record)
    history_file,    \* content of HISTORY_FILE on disk
    clock,           \* datetime.now(), as a logical clock
    hist_before,     \* snapshot of history taken when the current dispatch began
    trace,           \* effects of the current dispatch (or direct call), in program order
    events,          \* every emit_* call of the run, in program order
    dispatched,      \* the urls download_video was called with, in call order
    caller,          \* who called download_with_retry
    func,            \* download_func wrapped by download_with_retry
    attempt,         \* download_with_retry: loop variable
    last_error,      \* download_with_retry: last_error
    ret,             \* outcome of a direct API call (return value or raised error)
    text,            \* main: content of the input file (args.input)
    served,          \* what the remote servers and the media tool report in this run
    disk,            \* whether writing HISTORY_FILE can fail in this run
    embed_page,      \* download_bunnycdn_video: embed_page (response.text)
    HAS_YT_DLP,      \* whether `import yt_dlp` succeeded
    google_docs_format,  \* config['google_docs_format'], the export_format argument
    max_parallel_downloads,  \* config['max_parallel_downloads']
    parallel,        \* args.parallel
    writes,          \* the ledgers save_history was called with, in call order
    responses,       \* what the servers, the media tool and the disk did, in order
    twin             \* the earlier of two runs that are compared (NoTwin: none)

vars == <<urls, idx, pc, successful, failed, results, exit_code, skip_existing,
          retry_attempts, retry_delay, history, history_file, clock, hist_before,
          trace, events, dispatched, caller, func, attempt, last_error, ret,
          text, served, disk, embed_page, HAS_YT_DLP, google_docs_format,
          max_parallel_downloads, parallel, writes, responses, twin>>

-----------------------------------------------------------------------------
(* Bounds of the model *)

\* longest batch handed to main
MaxBatch == 2
\* largest config['retry_attempts'] of a batch run
MaxAttempts == 3
\* largest config['retry_attempts'] of a direct download_with_retry call
MaxRetryAttempts == 3
\* largest config['retry_delay'] of a direct download_with_retry call
MaxRetryDelay == 2
\* most direct ledger calls in a row
MaxCalls == 3
\* most pieces an input text is put together from
MaxPieces == 2
\* largest Content-Length a response declares
MaxContentLength == 2
\* most chunks of a response body, most calls of the progress hook
MaxChunks == 2
\* largest chunk, in bytes
MaxChunkSize == 2
\* largest fragment_count the media tool reports
MaxFragments == 2

\* DEFAULT_CONFIG['retry_delay']
DefaultRetryDelay == 5

-----------------------------------------------------------------------------
(* Strings as the regular expressions of the source read them *)

Ch(s, i) == IF i >= 1 /\ i <= Len(s) THEN SubSeq(s, i, i) ELSE ""

\* the literal p occurs in s at position i
HasAt(s, i, p) ==
    /\ i >= 1
    /\ i + Len(p) - 1 <= Len(s)
    /\ SubSeq(s, i, i + Len(p) - 1) = p

\* Python's `p in s`
Contains(s, p) == \E i \in 1..(Len(s) - Len(p) + 1) : HasAt(s, i, p)

\* first position >= i where the literal p occurs in s, 0 when there is none
RECURSIVE Find(_, _, _)
Find(s, p, i) ==
    IF i + Len(p) - 1 > Len(s) THEN 0
    ELSE IF HasAt(s, i, p) THEN i
    ELSE Find(s, p, i + 1)

\* str.replace(old, new): every occurrence of old, from the left
RECURSIVE replace(_, _, _)
replace(s, old, new) ==
    LET k == Find(s, old, 1)
    IN IF k = 0 THEN s
       ELSE SubSeq(s, 1, k - 1) \o new
              \o replace(SubSeq(s, k + Len(old), Len(s)), old, new)

\* c is one character of the class cls (a string listing its characters)
InClass(c, cls) == c # "" /\ \E k \in 1..Len(cls) : SubSeq(cls, k, k) = c

Digits == "0123456789"
LowerLetters == "abcdefghijklmnopqrstuvwxyz"
UpperLetters == "ABCDEFGHIJKLMNOPQRSTUVWXYZ"
\* [a-f0-9\-]
HexDash == "abcdef0123456789-"
\* [a-zA-Z0-9_-]
IdChars == LowerLetters \o UpperLetters \o Digits \o "_-"

\* last position of the longest run of cls characters of s that starts at i
\* (i - 1 when the run is empty)
RECURSIVE RunEnd(_, _, _)
RunEnd(s, i, cls) ==
    IF InClass(Ch(s, i), cls) THEN RunEnd(s, i + 1, cls) ELSE i - 1

LowerChar(c) ==
    IF InClass(c, UpperLetters)
    THEN LET k == CHOOSE k \in 1..Len(UpperLetters) : SubSeq(UpperLetters, k, k) = c
         IN SubSeq(LowerLetters, k, k)
    ELSE c

\* str.lower()
RECURSIVE Lower(_)
Lower(s) == IF s = "" THEN "" ELSE LowerChar(Head(s)) \o Lower(Tail(s))

\* re.search(lit ++ [cls]+, s): the literal followed by at least one cls character
SearchLitClass(s, lit, cls) ==
    \E i \in 1..Len(s) : HasAt(s, i, lit) /\ InClass(Ch(s, i + Len(lit)), cls)

-----------------------------------------------------------------------------
(* URL classifier *)

\* variant: the guid may be empty, r'/embed/(\d+)/([a-f0-9\-]*)'
BunnyEmbedMatchEmptyGuid(url) ==
    \E i \in 1..Len(url) :
        /\ HasAt(url, i, "/embed/")
        /\ LET e == RunEnd(url, i + 7, Digits)
           IN /\ e >= i + 7
              /\ Ch(url, e + 1) = "/"

\* re.search(r'/embed/(\d+)/([a-f0-9\-]+)', url) with a non-empty group 2
BunnyEmbedMatch(url) ==
    \E i \in 1..Len(url) :
        /\ HasAt(url, i, "/embed/")
        /\ LET e == RunEnd(url, i + 7, Digits)
           IN /\ e >= i + 7
              /\ Ch(url, e + 1) = "/"
              /\ InClass(Ch(url, e + 2), HexDash)

\* url_patterns['googledrive_file']
GoogleDriveFileMatch(url) ==
    SearchLitClass(url, "https://drive.google.com/file/d/", IdChars)

\* url_patterns['googledrive_folder']
GoogleDriveFolderMatch(url) ==
    SearchLitClass(url, "https://drive.google.com/drive/folders/", IdChars)

DocTypes == {"document", "spreadsheets", "presentation"}

\* url_patterns['googledocs']
GoogleDocsMatch(url) ==
    \E t \in DocTypes :
        SearchLitClass(url, "https://docs.google.com/" \o t \o "/d/", IdChars)

\* url_patterns['googledocs'].search(url), from position i on: group 1 and
\* group 2 of the leftmost match
RECURSIVE docs_search(_, _)
docs_search(url, i) ==
    LET lit == "https://docs.google.com/"
        a == Find(url, lit, i)
        from == a + Len(lit)
        types == {t \in DocTypes : HasAt(url, from, t \o "/d/")}
        doc_type == CHOOSE t \in types : TRUE
        id == from + Len(doc_type) + Len("/d/")
    IN IF a = 0
       THEN [found |-> FALSE, doc_type |-> "", doc_id |-> ""]
       ELSE IF types # {} /\ InClass(Ch(url, id), IdChars)
       THEN [found |-> TRUE, doc_type |-> doc_type,
             doc_id |-> SubSeq(url, id, RunEnd(url, id, IdChars))]
       ELSE docs_search(url, a + 1)

\* get_google_docs_export_link: export_formats
export_formats ==
    [document |-> {"pdf", "docx", "txt", "html"},
     spreadsheets |-> {"pdf", "xlsx", "csv"},
     presentation |-> {"pdf", "pptx"}]

\* variant: every format is exported
get_google_docs_export_link_any_format(url, export_format) ==
    LET match == docs_search(url, 1)
    IN IF match.found
       THEN [found |-> TRUE,
             link |-> "https://docs.google.com/" \o match.doc_type \o "/d/"
                         \o match.doc_id \o "/export?format=" \o export_format,
             doc_id |-> match.doc_id]
       ELSE [found |-> FALSE, link |-> "", doc_id |-> ""]

\* DownloadManager.get_google_docs_export_link: the export link and the
\* document id, found = FALSE for (None, None)
get_google_docs_export_link(url, export_format) ==
    LET match == docs_search(url, 1)
    IN IF /\ match.found
          /\ match.doc_type \in DOMAIN export_formats
          /\ export_format \in export_formats[match.doc_type]
       THEN [found |-> TRUE,
             link |-> "https://docs.google.com/" \o match.doc_type \o "/d/"
                         \o match.doc_id \o "/export?format=" \o export_format,
             doc_id |-> match.doc_id]
       ELSE [found |-> FALSE, link |-> "", doc_id |-> ""]

MediaExtensions ==
    {"mp4", "mp3", "pdf", "zip", "mov", "avi", "mkv", "doc", "docx", "xls", "xlsx"}

\* variant: the extension has to end the url
GenericMediaMatchAtEnd(url) ==
    LET l == Lower(url)
    IN \E i \in 1..Len(l) :
          \E scheme \in {"http://", "https://"} :
              /\ HasAt(l, i, scheme)
              /\ \E j \in (i + Len(scheme))..Len(l) :
                    \E x \in MediaExtensions :
                        HasAt(l, j, "." \o x) /\ j + Len(x) = Len(l)

\* url_patterns['generic_media'], re.IGNORECASE, searched anywhere in the url
GenericMediaMatch(url) ==
    LET l == Lower(url)
    IN \E i \in 1..Len(l) :
          \E scheme \in {"http://", "https://"} :
              /\ HasAt(l, i, scheme)
              /\ \E j \in (i + Len(scheme))..Len(l) :
                    \E x \in MediaExtensions : HasAt(l, j, "." \o x)

\* variants of detect_url_type: an unknown url is reported valid; the generic
\* media pattern is tried before the dropbox test
detect_url_type_unknown_valid(url) ==
    IF Contains(url, "iframe.mediadelivery.net/embed/")
    THEN IF BunnyEmbedMatch(url) THEN <<"bunnycdn", TRUE>> ELSE <<"bunnycdn", FALSE>>
    ELSE IF GoogleDriveFileMatch(url) THEN <<"googledrive_file", TRUE>>
    ELSE IF GoogleDriveFolderMatch(url) THEN <<"googledrive_folder", TRUE>>
    ELSE IF GoogleDocsMatch(url) THEN <<"googledocs", TRUE>>
    ELSE IF Contains(Lower(url), "dropbox") THEN <<"dropbox", TRUE>>
    ELSE IF GenericMediaMatch(url) THEN <<"generic_media", TRUE>>
    ELSE <<"unknown", TRUE>>

detect_url_type_generic_first(url) ==
    IF Contains(url, "iframe.mediadelivery.net/embed/")
    THEN IF BunnyEmbedMatch(url) THEN <<"bunnycdn", TRUE>> ELSE <<"bunnycdn", FALSE>>
    ELSE IF GoogleDriveFileMatch(url) THEN <<"googledrive_file", TRUE>>
    ELSE IF GoogleDriveFolderMatch(url) THEN <<"googledrive_folder", TRUE>>
    ELSE IF GoogleDocsMatch(url) THEN <<"googledocs", TRUE>>
    ELSE IF GenericMediaMatch(url) THEN <<"generic_media", TRUE>>
    ELSE IF Contains(Lower(url), "dropbox") THEN <<"dropbox", TRUE>>
    ELSE <<"unknown", FALSE>>

\* detect_url_type: <<url_type, is_valid>>
detect_url_type(url) ==
    IF Contains(url, "iframe.mediadelivery.net/embed/")
    THEN IF BunnyEmbedMatch(url) THEN <<"bunnycdn", TRUE>> ELSE <<"bunnycdn", FALSE>>
    ELSE IF GoogleDriveFileMatch(url) THEN <<"googledrive_file", TRUE>>
    ELSE IF GoogleDriveFolderMatch(url) THEN <<"googledrive_folder", TRUE>>
    ELSE IF GoogleDocsMatch(url) THEN <<"googledocs", TRUE>>
    ELSE IF Contains(Lower(url), "dropbox") THEN <<"dropbox", TRUE>>
    ELSE IF GenericMediaMatch(url) THEN <<"generic_media", TRUE>>
    ELSE <<"unknown", FALSE>>

-----------------------------------------------------------------------------
(* Inputs *)

UrlBunny == "https://iframe.mediadelivery.net/embed/12345/ab-cd"
UrlBunnyNoGuid == "https://iframe.mediadelivery.net/embed/12345/"
UrlDriveFile == "https://drive.google.com/file/d/ABC123/view"
UrlDriveFolder == "https://drive.google.com/drive/folders/F_1"
UrlDocs == "https://docs.google.com/document/d/XYZ/edit"
UrlDropbox == "https://www.Dropbox.com/s/x/report?dl=0"
UrlGeneric == "https://example.com/a.mp4"
UrlUnknown == "https://example.com/page"
\* a url of an earlier run, never part of the batch
UrlEarlier == "https://example.com/earlier.zip"

URLS == {UrlBunny, UrlBunnyNoGuid, UrlDriveFile, UrlDriveFolder, UrlDocs,
         UrlDropbox, UrlGeneric, UrlUnknown}

\* urls for the classifier alone: a beginning and an ending
UrlHeads ==
    {"https://iframe.mediadelivery.net/embed/12345/ab-cd",
     "https://iframe.mediadelivery.net/embed/12345/",
     "https://iframe.mediadelivery.net/embed//ab",
     "https://iframe.mediadelivery.net/embed/12345/AB",
     "https://drive.google.com/file/d/ABC123",
     "https://drive.google.com/drive/folders/F_1",
     "https://docs.google.com/document/d/XYZ",
     "https://www.Dropbox.com/s/x/report",
     "https://example.com/a",
     "http://example.com/a",
     "ftp://example.com/a"}

UrlTails ==
    {"", "/view", ".mp4", ".MP4?x=1", ".html", "?dl=0", "/dropbox",
     "?u=https://drive.google.com/file/d/Q1",
     "?u=iframe.mediadelivery.net/embed/7/f0"}

ClassifierInputs == {h \o t : h \in UrlHeads, t \in UrlTails}

\* classification of the input urls, computed once
UrlType == [u \in URLS \cup ClassifierInputs |-> detect_url_type(u)]

\* args.output
DestFolder == "Downloads"

\* os.path.join(dest_folder, filename)
PathJoin(folder, filename) == folder \o "/" \o filename

\* the filename a provider downloader returns
DownloadedNames == {"new.mp4"}
\* filenames stored by earlier runs
StoredNames == {"old.mp4"}
Statuses == {"completed", "failed"}

\* the lists main can iterate over: a single --url, or the duplicate-free
\* result of extract_urls_from_text
Batches ==
    UNION {{s \in [1..n -> URLS] : \A i, j \in 1..n : i < j => s[i] # s[j]}
           : n \in 0..MaxBatch}

Range(s) == {s[i] : i \in 1..Len(s)}

StoredRecords ==
    [filename : StoredNames, status : Statuses, timestamp : {0}, folder : {DestFolder}]

\* What load_history can return for a well-formed history file, given the
\* batch: a record of an earlier run for any of the batch's urls, and one for
\* a url outside the batch (download_video(u) reads and writes the record of u
\* only, so one record stands for all those of other urls).
InitLedgers(batch) ==
    UNION {{[u \in S \cup {UrlEarlier} |->
                IF u = UrlEarlier
                THEN [filename |-> "earlier.zip", status |-> "completed",
                      timestamp |-> 0, folder |-> DestFolder]
                ELSE f[u]] : f \in [S -> StoredRecords]}
           : S \in SUBSET Range(batch)}

-----------------------------------------------------------------------------
(* Trace entries *)

Entry(kind, key, file, info, n) ==
    [kind |-> kind, key |-> key, file |-> file, info |-> info, n |-> n]

DispatchEntry(url) == Entry("dispatch", url, "", "", 0)
\* call number a (0-based) of download function f, and how it ended
CallEntry(url, f, a, o) == Entry("call", url, o, f, a)
NetEntry(url, f) == Entry("net", url, "", f, 0)
\* time.sleep(wait_time)
SleepEntry(url, w) == Entry("sleep", url, "", "", w)
\* emit_progress(file, percent, speed, eta), percent already int(percent)
emit_progress(file, percent) == Entry("progress", "", file, "", percent)
\* variant: the end of a download is reported as progress
emit_complete_as_progress(file, path) == Entry("progress", "", file, path, 100)

\* emit_complete(file, path)
emit_complete(file, path) == Entry("complete", "", file, path, 0)
\* emit_error(file, error)
emit_error(file, error) == Entry("error", "", file, error, 0)
MarkEntry(url, filename, status, ts) == Entry("mark", url, filename, status, ts)
QueryEntry(url) == Entry("is_downloaded", url, "", "", 0)

IsEvent(e) == e.kind \in {"progress", "complete", "error"}

\* the effects `new` happen after those of `base`
Effects(base, new) ==
    /\ trace' = base \o new
    /\ events' = events \o SelectSeq(new, IsEvent)

\* the compared runs: none
NoTwin == [run |-> 0]

\* the outside world answers with `choice`; of two compared runs, the later
\* one is given the answers the earlier one was given
Responds(choice) ==
    /\ twin.run = 2 =>
          /\ Len(responses) < Len(twin.responses)
          /\ twin.responses[Len(responses) + 1] = choice
    /\ responses' = IF twin.run = 0 THEN responses ELSE Append(responses, choice)

\* DEFAULT_CONFIG (line 68) and the default of -p/--parallel (line 910)
DefaultParallel ==
    /\ max_parallel_downloads = 3
    /\ parallel = 1
    /\ twin = NoTwin

-----------------------------------------------------------------------------
(* History ledger *)

\* What json.load returns is modelled by its Python type.  A dict is a
\* function of its keys (a record, when the keys are field names); a value of
\* another type is a record with the reserved field `json` naming the type.
JsonList(items) == [json |-> "list", items |-> items]
JsonStr(s) == [json |-> "str", value |-> s]
JsonInt(n) == [json |-> "int", value |-> n]
JsonNull == [json |-> "NoneType"]

\* type(v).__name__
JsonType(v) == IF "json" \in DOMAIN v THEN v.json ELSE "dict"

\* HISTORY_FILE when os.path.exists is false, and when json.load raises
FileAbsent == [json |-> "absent"]
FileUnparsable == [json |-> "unparsable"]

\* {}
EmptyDict == [u \in {} |-> JsonNull]

\* DownloadManager.load_history: whatever json.load returns, {} when the file
\* is absent or json.load raises
load_history(file) ==
    IF JsonType(file) \in {"absent", "unparsable"} THEN EmptyDict ELSE file

\* d.get(key, default)
get(d, key, default) == IF key \in DOMAIN d THEN d[key] ELSE default

\* url in self.history, for the types that support `in`
py_in(url, h) ==
    IF JsonType(h) = "dict" THEN url \in DOMAIN h
    ELSE IF JsonType(h) = "list" THEN \E i \in 1..Len(h.items) : h.items[i] = url
    ELSE JsonType(h) = "str" /\ Contains(h.value, url)

\* is_downloaded raises: `in` on a value that is not a container (TypeError),
\* self.history[url] on a list or a string (TypeError), .get on a value that
\* is not a dict (AttributeError)
is_downloaded_raises(h, skip, url) ==
    /\ skip
    /\ IF JsonType(h) \notin {"dict", "list", "str"} THEN TRUE
       ELSE /\ py_in(url, h)
            /\ (JsonType(h) = "dict" => JsonType(h[url]) # "dict")

\* self.history[url] = {...} raises TypeError unless self.history is a dict
mark_downloaded_raises(h) == JsonType(h) # "dict"

\* variants of is_downloaded with a slip in them
is_downloaded_wrong_status(h, skip, url) ==
    /\ skip
    /\ url \in DOMAIN h
    /\ h[url].status = "complete"

is_downloaded_ignores_policy(h, skip, url) ==
    /\ url \in DOMAIN h
    /\ h[url].status = "completed"

\* DownloadManager.is_downloaded
is_downloaded(h, skip, url) ==
    /\ skip
    /\ py_in(url, h)
    /\ get(h[url], "status", "None") = "completed"

\* variants of mark_downloaded with a slip in them: the first record of a url
\* is kept (setdefault); the record is never stored
mark_downloaded_keeps_first(h, url, filename, status, folder, now) ==
    [k \in DOMAIN h \cup {url} |->
        IF k \in DOMAIN h
        THEN h[k]
        ELSE [filename |-> filename, status |-> status,
              timestamp |-> now, folder |-> folder]]

mark_downloaded_stores_nothing(h, url, filename, status, folder, now) == h

\* variant: the ledger is started afresh (self.history = {url: ...})
mark_downloaded_drops_others(h, url, filename, status, folder, now) ==
    [k \in {url} |->
        [filename |-> filename, status |-> status,
         timestamp |-> now, folder |-> folder]]

\* DownloadManager.mark_downloaded: the new content of self.history
mark_downloaded(h, url, filename, status, folder, now) ==
    [k \in DOMAIN h \cup {url} |->
        IF k = url
        THEN [filename |-> filename, status |-> status,
              timestamp |-> now, folder |-> folder]
        ELSE h[k]]

\* How the body of the try of save_history can end: json.dump wrote the whole
\* ledger; open(HISTORY_FILE, 'w') raised (the file is as it was); json.dump
\* raised after open had truncated the file.  The except branch is `pass`.
SaveOutcomes(d) ==
    IF d = "writable" THEN {"written"} ELSE {"written", "not_opened", "truncated"}

\* DownloadManager.save_history: the new content of HISTORY_FILE
save_history(h, file, o) ==
    IF o = "written" THEN h
    ELSE IF o = "not_opened" THEN file
    ELSE FileUnparsable

\* mark_downloaded as a step: upsert, then save
MarkDownloaded(url, filename, status, folder) ==
    /\ clock' = clock + 1
    /\ history' = mark_downloaded(history, url, filename, status, folder, clock + 1)
    /\ writes' = Append(writes, history')
    /\ \E o \in SaveOutcomes(disk) :
          history_file' = save_history(history', history_file, o)

-----------------------------------------------------------------------------
(* Provider downloaders, as the retry executor sees them *)

\* the download functions download_with_retry is handed
Funcs == {"download_google_drive_file", "download_google_docs",
          "download_dropbox_file", "download_generic_file",
          "download_drm_video", "download_non_drm_video"}

\* download_video: the downloader of a url type
FuncOfType(t) ==
    IF t = "googledrive_file" THEN "download_google_drive_file"
    ELSE IF t = "googledocs" THEN "download_google_docs"
    ELSE IF t = "dropbox" THEN "download_dropbox_file"
    ELSE "download_generic_file"

\* How one call of a download function can end: "ok" (the filename is
\* returned, after emit_complete), "error" (raised after a network request was
\* sent) or "early_error" (raised before any request: no export link, no
\* playlist url, no yt-dlp, no server id, no DRM parameters).
Outcomes(f) ==
    IF f \in {"download_google_docs", "download_drm_video", "download_non_drm_video"}
    THEN {"ok", "error", "early_error"}
    ELSE {"ok", "error"}

\* the exception raised by the call number a (0-based) of the download function
AttemptError(a) == "download failed in attempt " \o ToString(a + 1)

\* str(e) of the TypeError that `raise None` raises
RaiseNoneError == "exceptions must derive from BaseException"

\* str(e) of a failed request for the embed page
EmbedPageError == "embed page request failed"

NoError == "None"

\* str(e) of the TypeError of self.history[url] = {...} on a value that is
\* not a dict
ItemAssignmentError == "object does not support item assignment"

-----------------------------------------------------------------------------
(* What a download function reports while it runs *)

HttpFuncs == {"download_google_drive_file", "download_google_docs",
              "download_dropbox_file", "download_generic_file"}

\* int(percent) in emit_progress, for percent = (part / whole) * 100
percent_of(part, whole) == (part * 100) \div whole

\* the streaming loop of the four HTTP downloaders: one emit_progress per
\* non-empty chunk, when the response declared a positive Content-Length
RECURSIVE StreamProgress(_, _, _, _)
StreamProgress(filename, total_size, chunks, downloaded) ==
    IF chunks = <<>>
    THEN <<>>
    ELSE LET now == downloaded + Head(chunks)
         IN (IF Head(chunks) > 0 /\ total_size > 0
             THEN <<emit_progress(filename, percent_of(now, total_size))>>
             ELSE <<>>)
            \o StreamProgress(filename, total_size, Tail(chunks), now)

\* str.strip() of spaces, then .replace('%', '')
RECURSIVE StripLeft(_)
StripLeft(s) == IF s # "" /\ Head(s) = " " THEN StripLeft(Tail(s)) ELSE s
RECURSIVE StripRight(_)
StripRight(s) ==
    IF s # "" /\ Ch(s, Len(s)) = " " THEN StripRight(SubSeq(s, 1, Len(s) - 1)) ELSE s
RECURSIVE RemovePercent(_)
RemovePercent(s) ==
    IF s = "" THEN ""
    ELSE (IF Head(s) = "%" THEN "" ELSE SubSeq(s, 1, 1)) \o RemovePercent(Tail(s))

DigitValue(c) == (CHOOSE k \in 1..10 : SubSeq(Digits, k, k) = c) - 1

RECURSIVE DigitsToInt(_, _)
DigitsToInt(s, acc) ==
    IF s = "" THEN acc ELSE DigitsToInt(Tail(s), acc * 10 + DigitValue(Head(s)))

\* int(float(s)) for an unsigned decimal numeral, 0 where float(s) raises
float_int(s) ==
    LET e == RunEnd(s, 1, Digits)
        frac == IF Ch(s, e + 1) = "." THEN RunEnd(s, e + 2, Digits) ELSE e
    IN IF frac = Len(s) /\ (e >= 1 \/ frac >= e + 2)
       THEN DigitsToInt(SubSeq(s, 1, e), 0)
       ELSE 0

\* DownloadProgress.__call__, lines 151-155
parse_percent(percent_str) == float_int(RemovePercent(StripRight(StripLeft(percent_str))))

\* DownloadProgress.__call__(d) in machine-readable mode
HookProgress(filename, d) ==
    IF d.status # "downloading" THEN <<>>
    ELSE IF d.fragmented
    THEN (IF d.fragment_count > 0
          THEN <<emit_progress(filename,
                     percent_of(d.fragment_index, d.fragment_count))>>
          ELSE <<>>)
    ELSE <<emit_progress(filename, parse_percent(d.percent_str))>>

RECURSIVE HookReports(_, _)
HookReports(filename, hooks) ==
    IF hooks = <<>> THEN <<>>
    ELSE HookProgress(filename, Head(hooks)) \o HookReports(filename, Tail(hooks))

\* the emit_progress calls of one complete run of download function f
AttemptReports(f, filename, tr) ==
    IF f \in HttpFuncs
    THEN StreamProgress(filename, tr.total_size, tr.chunks, 0)
    ELSE HookReports(filename, tr.hooks)

Transfer(total_size, chunks, hooks) ==
    [total_size |-> total_size, chunks |-> chunks, hooks |-> hooks]

SeqsUpTo(S, n) == UNION {[1..k -> S] : k \in 0..n}

\* the dictionaries yt-dlp hands to the progress hook
Hook(status, fragmented, i, n, percent_str) ==
    [status |-> status, fragmented |-> fragmented, fragment_index |-> i,
     fragment_count |-> n, percent_str |-> percent_str]

PercentStrs == {"  0.0%", " 50.5%", "100.0%", "Unknown %"}

Hooks ==
    {Hook("downloading", TRUE, i, n, "") : i \in 0..MaxFragments, n \in 0..MaxFragments}
    \cup {Hook("downloading", FALSE, 0, 0, p) : p \in PercentStrs}
    \cup {Hook("finished", FALSE, 0, 0, "")}

\* What one call of download function f can receive.  "no_length" and "drm":
\* no response declares a Content-Length and the media tool calls the hook
\* when it has finished only; "any": every declared length, body and hook
\* sequence within the bounds.
Transfers(kind, f) ==
    IF kind # "any"
    THEN {Transfer(0, <<1>>, <<Hook("finished", FALSE, 0, 0, "")>>)}
    ELSE IF f \in HttpFuncs
    THEN {Transfer(t, c, <<>>) :
             t \in 0..MaxContentLength, c \in SeqsUpTo(0..MaxChunkSize, MaxChunks)}
    ELSE {Transfer(0, <<>>, h) :
             h \in SeqsUpTo({d \in Hooks : d.fragment_index <= d.fragment_count},
                            MaxChunks)}

-----------------------------------------------------------------------------
(* Inputs of the Docs and the Dropbox downloader, and what the functions of a
   url return for the urls of the model, computed once *)

\* a spreadsheet and a presentation
UrlSheet == "https://docs.google.com/spreadsheets/d/S_1/edit#gid=0"
UrlSlides == "https://docs.google.com/presentation/d/P-2/edit"

\* the formats of the table, and one that is in no row
ExportFormatInputs == {"pdf", "docx", "txt", "html", "xlsx", "csv", "pptx", "odt"}

\* share links: head?p1&p2#fragment
\* most query parameters of a share link
MaxParams == 2

DropboxHeads == {"https://dropbox.com/f", "https://www.dropbox.com/s/x/r.pdf"}
DropboxParams == {"dl=0", "dl=1", "x=1"}
DropboxFragments == {"", "#t"}

RECURSIVE QueryString(_)
QueryString(ps) ==
    IF ps = <<>> THEN "" ELSE "&" \o Head(ps) \o QueryString(Tail(ps))

ShareLink(head, ps, fragment) ==
    head \o (IF ps = <<>> THEN "" ELSE "?" \o Tail(QueryString(ps))) \o fragment

DropboxInputs ==
    {ShareLink(h, ps, f) :
        h \in DropboxHeads,
        ps \in UNION {[1..n -> DropboxParams] : n \in 0..MaxParams},
        f \in DropboxFragments}

DocsUrls ==
    {u \in DOMAIN UrlType : UrlType[u][1] = "googledocs"} \cup {UrlSheet, UrlSlides}

DropboxUrls ==
    {u \in DOMAIN UrlType : UrlType[u][1] = "dropbox"} \cup DropboxInputs

BunnyUrls == {u \in DOMAIN UrlType : UrlType[u] = <<"bunnycdn", TRUE>>}

\* get_google_docs_export_link(u, f)
ExportLinks ==
    [u \in DocsUrls |->
        [f \in ExportFormatInputs |-> get_google_docs_export_link(u, f)]]

-----------------------------------------------------------------------------
(* DRM flow: what download_drm_video reads from the embed page and the
   playlist *)

\* position of the last "/" of s at or after position i, 0 when there is none
RECURSIVE LastSlash(_, _)
LastSlash(s, i) ==
    LET k == Find(s, "/", i)
    IN IF k = 0 THEN 0
       ELSE IF Find(s, "/", k + 1) = 0 THEN k
       ELSE LastSlash(s, k + 1)

\* urlparse(embed_url).path.split("/")[-1].split("?")[0]
guid_of(embed_url) ==
    LET scheme == Find(embed_url, "://", 1)
        start == IF scheme = 0 THEN 1 ELSE scheme + 3
        q == Find(embed_url, "?", start)
        f == Find(embed_url, "#", start)
        stop == IF q = 0 /\ f = 0 THEN Len(embed_url) + 1
                ELSE IF q = 0 THEN f
                ELSE IF f = 0 THEN q
                ELSE IF q < f THEN q ELSE f
        upto == SubSeq(embed_url, 1, stop - 1)
        slash == LastSlash(upto, start)
    IN IF slash = 0 THEN "" ELSE SubSeq(upto, slash + 1, Len(upto))

\* re.search(r"https://video-(.*?)\.mediadelivery\.net", embed_page), from
\* position i on: group 1 is the shortest text, without a newline, between the
\* two literals
RECURSIVE server_search(_, _)
server_search(page, i) ==
    LET a == Find(page, "https://video-", i)
        b == IF a = 0 THEN 0
             ELSE Find(page, ".mediadelivery.net", a + Len("https://video-"))
        from == a + Len("https://video-")
    IN IF a = 0 \/ b = 0
       THEN [found |-> FALSE, server_id |-> ""]
       ELSE IF Find(SubSeq(page, from, b - 1), "\n", 1) # 0
       THEN server_search(page, a + 1)
       ELSE [found |-> TRUE, server_id |-> SubSeq(page, from, b - 1)]

\* re.search('contextId=([\w-]+)' + sep + 'secret=([\w-]+)', page), from
\* position i on
RECURSIVE params_search(_, _, _)
params_search(page, sep, i) ==
    LET a == Find(page, "contextId=", i)
        c1 == a + Len("contextId=")
        c2 == RunEnd(page, c1, IdChars)
        s1 == c2 + 1 + Len(sep) + Len("secret=")
        s2 == RunEnd(page, s1, IdChars)
    IN IF a = 0
       THEN [found |-> FALSE, context_id |-> "", secret |-> ""]
       ELSE IF c2 >= c1 /\ HasAt(page, c2 + 1, sep \o "secret=") /\ s2 >= s1
       THEN [found |-> TRUE, context_id |-> SubSeq(page, c1, c2),
             secret |-> SubSeq(page, s1, s2)]
       ELSE params_search(page, sep, a + 1)

\* download_drm_video, lines 724-735: the first of the two patterns that
\* matches gives context_id and secret
drm_params(page) ==
    LET amp == params_search(page, "&amp;", 1)
    IN IF amp.found THEN amp ELSE params_search(page, "&", 1)

\* DownloadManager.check_for_drm
check_for_drm(page) ==
    \/ drm_params(page).found
    \/ Contains(page, ".drm/")
    \/ Contains(page, "playlist.drm")

\* \s of the re module, for ASCII text
Whitespace == " \t\n\r\f"

\* re.search(r'og:title"\s*content="([^"]+)"', embed_page), from position i
\* on: group 1 is the text up to the next double quote, at least one character
RECURSIVE title_search(_, _)
title_search(page, i) ==
    LET lit == "og:title\""
        a == Find(page, lit, i)
        c == RunEnd(page, a + Len(lit), Whitespace) + 1
        t == c + Len("content=\"")
        q == Find(page, "\"", t)
    IN IF a = 0
       THEN [found |-> FALSE, title |-> ""]
       ELSE IF HasAt(page, c, "content=\"") /\ q > t
       THEN [found |-> TRUE, title |-> SubSeq(page, t, q - 1)]
       ELSE title_search(page, a + 1)

\* html.unescape, for text whose "&" begin one of these five references only
unescape(s) ==
    replace(replace(replace(replace(replace(s,
        "&lt;", "<"), "&gt;", ">"), "&quot;", "\""), "&#39;", "'"), "&amp;", "&")

\* DownloadManager.extract_video_info: info['title'] is None unless the page
\* has the title tag (the other four keys are never read by the downloaders)
extract_video_info(page) ==
    LET title_match == title_search(page, 1)
    IN [title |-> IF title_match.found
                  THEN JsonStr(unescape(title_match.title))
                  ELSE JsonNull]

\* sanitize_filename, line 362: invalid_chars
InvalidChars == "<>:\"|?*\\/"

\* the loop of sanitize_filename: every invalid character becomes "_"
RECURSIVE replace_invalid(_)
replace_invalid(s) ==
    IF s = "" THEN ""
    ELSE (IF InClass(SubSeq(s, 1, 1), InvalidChars) THEN "_" ELSE SubSeq(s, 1, 1))
            \o replace_invalid(Tail(s))

\* str.strip(chars)
RECURSIVE strip(_, _)
strip(s, chars) ==
    IF s = "" THEN s
    ELSE IF InClass(SubSeq(s, 1, 1), chars) THEN strip(Tail(s), chars)
    ELSE IF InClass(Ch(s, Len(s)), chars) THEN strip(SubSeq(s, 1, Len(s) - 1), chars)
    ELSE s

\* position of the last "." of s at or after position i, 0 when there is none
RECURSIVE LastDot(_, _)
LastDot(s, i) ==
    IF Find(s, ".", i) = 0 THEN 0
    ELSE IF Find(s, ".", Find(s, ".", i) + 1) = 0 THEN Find(s, ".", i)
    ELSE LastDot(s, Find(s, ".", i) + 1)

\* os.path.splitext of a name without a separator: the extension starts at
\* the last dot, unless only dots precede it
splitext(p) ==
    LET dot == LastDot(p, 1)
    IN IF dot > 0 /\ strip(SubSeq(p, 1, dot - 1), ".") # ""
       THEN [name |-> SubSeq(p, 1, dot - 1), ext |-> SubSeq(p, dot, Len(p))]
       ELSE [name |-> p, ext |-> ""]

\* sanitize_filename, line 367: len(name) > 200
NameLimit == 200

\* DownloadManager.sanitize_filename
sanitize_filename(filename) ==
    LET parts == splitext(strip(replace_invalid(filename), ". "))
    IN (IF Len(parts.name) > NameLimit THEN SubSeq(parts.name, 1, NameLimit)
        ELSE parts.name) \o parts.ext

\* str(e) of the AttributeError of title.endswith on None
NoneTitleError == "'NoneType' object has no attribute 'endswith'"

\* variant: a missing title falls back to the guid (title = info['title'] or guid)
format_filename_guid_fallback(info, embed_url) ==
    LET got == get(info, "title", JsonStr(guid_of(embed_url)))
        title == IF JsonType(got) = "NoneType" THEN guid_of(embed_url) ELSE got.value
        stem == IF Len(title) >= 4 /\ HasAt(title, Len(title) - 3, ".mp4")
                THEN SubSeq(title, 1, Len(title) - 4)
                ELSE title
    IN [raised |-> FALSE, value |-> sanitize_filename(stem \o ".mp4")]

\* DownloadManager.format_filename: the filename, or the exception raised.
\* info.get('title', guid) is the guid only when info has no key 'title'.
format_filename(info, embed_url) ==
    LET got == get(info, "title", JsonStr(guid_of(embed_url)))
        title == got.value
        stem == IF Len(title) >= 4 /\ HasAt(title, Len(title) - 3, ".mp4")
                THEN SubSeq(title, 1, Len(title) - 4)
                ELSE title
    IN IF JsonType(got) = "NoneType"
       THEN [raised |-> TRUE, value |-> NoneTitleError]
       ELSE [raised |-> FALSE, value |-> sanitize_filename(stem \o ".mp4")]

\* md5(s.encode()).hexdigest(), kept symbolic
md5(s) == "md5(" \o s \o ")"

\* _drm_auth, lines 768-771: the GET that ping(time_val, paused, res) sends,
\* time_val formatted by Python
ping_request(server_id, context_id, secret, time_val, paused, res) ==
    "https://video-" \o server_id \o ".mediadelivery.net/.drm/" \o context_id
       \o "/ping?hash="
       \o md5(secret \o "_" \o context_id \o "_" \o time_val \o "_" \o paused
                \o "_" \o res)
       \o "&time=" \o time_val \o "&paused=" \o paused \o "&chosen_res=" \o res

\* _drm_auth, line 774
activate_request(server_id, context_id) ==
    "https://video-" \o server_id \o ".mediadelivery.net/.drm/" \o context_id
       \o "/activate"

\* download_drm_video, line 742
video_url(guid, resolution, context_id) ==
    "https://iframe.mediadelivery.net/" \o guid \o "/" \o resolution
       \o "/video.drm?contextId=" \o context_id

\* re.findall(r'(\d+x\d+)/video\.drm', t), scanning from position i
RECURSIVE resolution_tokens(_, _)
resolution_tokens(t, i) ==
    IF i > Len(t)
    THEN <<>>
    ELSE LET w == RunEnd(t, i, Digits)
             h == RunEnd(t, w + 2, Digits)
         IN IF w >= i /\ Ch(t, w + 1) = "x" /\ h >= w + 2
               /\ HasAt(t, h + 1, "/video.drm")
            THEN <<SubSeq(t, i, h)>>
                    \o resolution_tokens(t, h + 1 + Len("/video.drm"))
            ELSE resolution_tokens(t, i + 1)

\* x.split('x')[1]
height_str(token) ==
    LET k == CHOOSE k \in 1..Len(token) : SubSeq(token, k, k) = "x"
    IN SubSeq(token, k + 1, Len(token))

\* a < b for strings of digits, as Python compares str
RECURSIVE str_less(_, _)
str_less(a, b) ==
    IF b = "" THEN FALSE
    ELSE IF a = "" THEN TRUE
    ELSE IF Head(a) = Head(b) THEN str_less(Tail(a), Tail(b))
    ELSE DigitValue(Head(a)) < DigitValue(Head(b))

\* variant: the heights are compared as strings
key_less_as_strings(a, b) == str_less(height_str(a), height_str(b))

\* key=lambda x: int(x.split('x')[1]): the key of a is less than that of b
key_less(a, b) == DigitsToInt(height_str(a), 0) < DigitsToInt(height_str(b), 0)

\* sorted(..., reverse=True) is stable: x goes after the items whose key is
\* not less than its own
RECURSIVE insert_desc(_, _)
insert_desc(x, sorted) ==
    IF sorted = <<>> THEN <<x>>
    ELSE IF key_less(Head(sorted), x) THEN <<x>> \o sorted
    ELSE <<Head(sorted)>> \o insert_desc(x, Tail(sorted))

RECURSIVE sorted_desc(_, _)
sorted_desc(items, acc) ==
    IF items = <<>> THEN acc
    ELSE sorted_desc(Tail(items), insert_desc(Head(items), acc))

NoResolutionsError == "No resolutions found"

\* _get_best_resolution, lines 778-780: the GET of playlist.drm with
\* params contextId and secret, as requests sends it
playlist_request(guid, context_id, secret) ==
    "https://iframe.mediadelivery.net/" \o guid \o "/playlist.drm?contextId="
       \o context_id \o "&secret=" \o secret

\* variant: 1280x720 when the playlist lists no resolution
best_resolution_or_default(response_text) ==
    LET resolutions == resolution_tokens(response_text, 1)
    IN IF resolutions = <<>>
       THEN [raised |-> FALSE, value |-> "1280x720"]
       ELSE [raised |-> FALSE, value |-> sorted_desc(resolutions, <<>>)[1]]

\* _get_best_resolution, lines 782-787, on response.text: the resolution, or
\* the exception raised
best_resolution(response_text) ==
    LET resolutions == resolution_tokens(response_text, 1)
    IN IF resolutions = <<>>
       THEN [raised |-> TRUE, value |-> NoResolutionsError]
       ELSE [raised |-> FALSE, value |-> sorted_desc(resolutions, <<>>)[1]]

-----------------------------------------------------------------------------
(* DRM flow: download_drm_video *)

\* no embed page: the url is not an embed url
NoPage == ""

\* the title tag of an embed page
TitleTag == "<meta property=\"og:title\" content=\"new\">"

\* embed pages: a DRM page, the same with a plain "&", one without the video
\* server, one without contextId and secret, and a page of a video without
\* DRM, all with a title tag; a DRM page and a page of a video without DRM
\* that have no title tag
DrmPage ==
    TitleTag \o "src=https://video-s1.mediadelivery.net/?contextId=ctx-1&amp;secret=sec_2"
DrmPagePlainSeparator ==
    TitleTag \o "https://video-s1.mediadelivery.net/?contextId=ctx-1&secret=sec_2"
DrmPageNoServer ==
    TitleTag \o "https://iframe.mediadelivery.net/?contextId=ctx-1&amp;secret=sec_2"
DrmPageNoParams == TitleTag \o "https://video-s1.mediadelivery.net/ab-cd/playlist.drm"
PlainPage == TitleTag \o "https://example.com/ab-cd/playlist.m3u8"
DrmPageNoTitle ==
    "src=https://video-s1.mediadelivery.net/?contextId=ctx-1&amp;secret=sec_2"
PlainPageNoTitle == "https://example.com/ab-cd/playlist.m3u8"

AllPages == {NoPage, DrmPage, DrmPagePlainSeparator, DrmPageNoServer,
             DrmPageNoParams, PlainPage, DrmPageNoTitle, PlainPageNoTitle}

\* what download_bunnycdn_video and download_drm_video read from a page
PageFacts ==
    [p \in AllPages |->
        [is_drm |-> check_for_drm(p),
         server |-> server_search(p, 1),
         params |-> drm_params(p),
         info |-> extract_video_info(p)]]

\* the pages check_for_drm takes for DRM pages
DrmPages == {p \in AllPages : PageFacts[p].is_drm}

\* The embed pages the server can answer with.  "drm": every page;
\* "untitled": the DRM page and the page without DRM, with and without a
\* title tag; otherwise the DRM page and the page without DRM, with a title.
EmbedPages(kind) ==
    IF kind = "drm" THEN AllPages \ {NoPage}
    ELSE IF kind = "untitled"
    THEN {DrmPage, PlainPage, DrmPageNoTitle, PlainPageNoTitle}
    ELSE {DrmPage, PlainPage}

\* playlists the server can answer the playlist request with
DrmPlaylists ==
    {"#EXTM3U\n640x360/video.drm\n1280x720/video.drm\n",
     "#EXTM3U\n1920x1080/video.drm\n",
     "#EXTM3U\n"}

BestOf == [body \in DrmPlaylists |-> best_resolution(body)]

\* What the servers and yt-dlp do during one call of download_drm_video: the
\* request that raises (a connection error; no status is checked), if any, and
\* the body of the playlist
DrmServer(fails_at, playlist) == [fails_at |-> fails_at, playlist |-> playlist]

DrmSteps == <<"ping", "_drm_auth", "_get_best_resolution", "YoutubeDL.download">>

\* "drm": any request can fail and any playlist can be served; otherwise the
\* handshake succeeds and the download by yt-dlp succeeds or fails
DrmServers(kind, f) ==
    IF f # "download_drm_video" THEN {DrmServer("none", "")}
    ELSE IF kind = "drm"
    THEN {DrmServer(s, p) : s \in {"none"} \cup Range(DrmSteps), p \in DrmPlaylists}
    ELSE {DrmServer(s, "#EXTM3U\n1920x1080/video.drm\n") :
             s \in {"none", "YoutubeDL.download"}}

\* a request sent by function f while url is downloaded
RequestEntry(url, f, request) == Entry("net", url, request, f, 0)

\* download_dropbox_file, lines 552-558: the url handed to session.get
dropbox_direct_url(url) ==
    IF Contains(url, "?dl=0") THEN replace(url, "?dl=0", "?dl=1")
    ELSE IF Contains(url, "&dl=0") THEN replace(url, "&dl=0", "&dl=1")
    ELSE IF ~Contains(url, "?dl=1") /\ ~Contains(url, "&dl=1")
    THEN url \o (IF Contains(url, "?") THEN "&" ELSE "?") \o "dl=1"
    ELSE url

\* dropbox_direct_url(u)
DirectUrls == [u \in DropboxUrls |-> dropbox_direct_url(u)]

\* download_google_docs, line 514
InvalidDocsUrlError == "Invalid Google Docs URL"

NoYtDlpError == "yt-dlp is required for DRM videos"
NoServerIdError == "Could not find server ID"
NoDrmParametersError == "Could not find DRM parameters"

DrmResult(outcome, error, requests, fetching) ==
    [outcome |-> outcome, error |-> error, requests |-> requests,
     fetching |-> fetching]

\* the body of the answer to a request
ResponseEntry(request, body) == Entry("response", request, body, "", 0)

\* variants of _drm_auth: left out; activate before ping
drm_handshake_skipped(url, server_id, context_id, secret, fails_at) == <<>>

drm_handshake_activate_first(url, server_id, context_id, secret, fails_at) ==
    <<RequestEntry(url, "_drm_auth", activate_request(server_id, context_id)),
      RequestEntry(url, "ping",
                   ping_request(server_id, context_id, secret, "0", "true", "0"))>>

\* guid_of(u)
GuidOf == [u \in BunnyUrls |-> guid_of(u)]

\* _drm_auth: ping(0, "true", "0"), then activate; the requests it sends when
\* the request of step fails_at raises
drm_handshake(url, server_id, context_id, secret, fails_at) ==
    <<RequestEntry(url, "ping",
                   ping_request(server_id, context_id, secret, "0", "true", "0"))>>
    \o (IF fails_at = "ping" THEN <<>>
        ELSE <<RequestEntry(url, "_drm_auth",
                            activate_request(server_id, context_id))>>)

\* format_filename(extract_video_info(u, p), u)
FileNames ==
    [u \in BunnyUrls |-> [p \in AllPages |-> format_filename(PageFacts[p].info, u)]]

\* the body of download_drm_video on what it read from the page, the guid of
\* the url, the best resolution of the playlist served and what
\* format_filename gives
drm_call(embed_url, facts, guid, best, named, has_yt_dlp, srv) ==
    LET server_match == facts.server
        match == facts.params
        server_id == server_match.server_id
        context_id == match.context_id
        secret == match.secret
        auth == drm_handshake(embed_url, server_id, context_id, secret,
                              srv.fails_at)
        request == playlist_request(guid, context_id, secret)
        playlist == RequestEntry(embed_url, "_get_best_resolution", request)
        response == ResponseEntry(request, srv.playlist)
        fetch == RequestEntry(embed_url, "YoutubeDL.download",
                              video_url(guid, best.value, context_id))
    IN IF ~has_yt_dlp THEN DrmResult("early_error", NoYtDlpError, <<>>, FALSE)
       ELSE IF ~server_match.found
       THEN DrmResult("early_error", NoServerIdError, <<>>, FALSE)
       ELSE IF ~match.found
       THEN DrmResult("early_error", NoDrmParametersError, <<>>, FALSE)
       ELSE IF srv.fails_at \in {"ping", "_drm_auth"}
       THEN DrmResult("error", NoError, auth, FALSE)
       ELSE IF srv.fails_at = "_get_best_resolution"
       THEN DrmResult("error", NoError, auth \o <<playlist>>, FALSE)
       ELSE IF best.raised
       THEN DrmResult("error", best.value, auth \o <<playlist, response>>, FALSE)
       ELSE IF named.raised
       THEN DrmResult("error", named.value, auth \o <<playlist, response>>, FALSE)
       ELSE IF srv.fails_at = "YoutubeDL.download"
       THEN DrmResult("error", NoError, auth \o <<playlist, response, fetch>>, TRUE)
       ELSE DrmResult("ok", NoError, auth \o <<playlist, response, fetch>>, TRUE)

\* One call of download_drm_video(embed_url, embed_page, info, dest_folder) up
\* to the end of ydl.download: how it ends ("ok", "error" after a request,
\* "early_error" before any), the message of the exception it raises itself
\* (NoError when a request raised), the requests sent in order, and whether
\* yt-dlp was started.
download_drm_video(embed_url, page, has_yt_dlp, srv) ==
    drm_call(embed_url, PageFacts[page], GuidOf[embed_url], BestOf[srv.playlist],
             FileNames[embed_url][page], has_yt_dlp, srv)

-----------------------------------------------------------------------------
(* Retry executor: download_with_retry *)

\* variant: constant backoff
wait_time_constant(delay, a) == delay

\* wait_time = retry_delay * (attempt + 1)
wait_time(delay, a) == delay * (a + 1)

\* variant: sleeps after the final failure too
sleeps_after_every_failure(a, n) == a < n

\* attempt < retry_attempts - 1: another attempt follows, sleep first
sleeps_before_retry(a, n) == a < n - 1

\* what `raise last_error` raises
raised_error(e) == IF e = NoError THEN RaiseNoneError ELSE e

\* the url being downloaded
CurUrl == urls[idx]

\* variant: the loop ends at the first failure
MainCountsStopsAtFailure(ok) ==
    /\ results' = Append(results, ok)
    /\ successful' = IF ok THEN successful + 1 ELSE successful
    /\ failed' = IF ok THEN failed ELSE failed + 1
    /\ idx' = IF ok THEN idx + 1 ELSE Len(urls) + 1
    /\ pc' = "loop"

\* main, lines 959-963: count the value download_video returned, next url
MainCounts(ok) ==
    /\ results' = Append(results, ok)
    /\ successful' = IF ok THEN successful + 1 ELSE successful
    /\ failed' = IF ok THEN failed ELSE failed + 1
    /\ idx' = idx + 1
    /\ pc' = "loop"

\* the except branch of download_video / download_bunnycdn_video:
\* emit_error(url, str(e)); mark_downloaded(url, str(e), status='failed'); return False
\* variant of ExceptHandler: the failed record is written before the Error
\* event is emitted
ExceptHandlerMarksFirst(url, msg, base, effects) ==
    /\ MarkDownloaded(url, msg, "failed", DestFolder)
    /\ Effects(base, effects
             \o <<MarkEntry(url, msg, "failed", clock + 1), emit_error(url, msg)>>)
    /\ MainCounts(FALSE)

\* When mark_downloaded raises here, the exception leaves download_video;
\* from download_bunnycdn_video (line 897) it first reaches the except branch
\* of download_video (853-857), where mark_downloaded raises again.
ExceptHandler(url, msg, base, effects) ==
    IF mark_downloaded_raises(history)
    THEN /\ Effects(base, effects \o <<emit_error(url, msg)>>
                     \o (IF UrlType[url][1] = "bunnycdn"
                         THEN <<emit_error(url, ItemAssignmentError)>>
                         ELSE <<>>))
         /\ pc' = "raised"
         /\ UNCHANGED <<results, successful, failed, idx, history, history_file, clock, writes>>
    ELSE /\ MarkDownloaded(url, msg, "failed", DestFolder)
         /\ Effects(base, effects
                  \o <<emit_error(url, msg), MarkEntry(url, msg, "failed", clock + 1)>>)
         /\ MainCounts(FALSE)

\* download_video / download_bunnycdn_video after download_with_retry returned
\* `filename`: mark_downloaded(url, filename, folder=dest_folder); return True.
\* When mark_downloaded raises, the except branch takes over.
AfterRetryReturned(filename, effects) ==
    IF caller = "direct"
    THEN /\ ret' = [kind |-> "return", value |-> filename, flag |-> FALSE]
         /\ Effects(trace, effects)
         /\ pc' = "done"
         /\ UNCHANGED <<results, successful, failed, idx, history, history_file, clock, writes>>
    ELSE IF mark_downloaded_raises(history)
    THEN /\ ExceptHandler(CurUrl, ItemAssignmentError, trace, effects)
         /\ UNCHANGED ret
    ELSE /\ MarkDownloaded(CurUrl, filename, "completed", DestFolder)
         /\ Effects(trace, effects
                       \o <<MarkEntry(CurUrl, filename, "completed", clock + 1)>>)
         /\ MainCounts(TRUE)
         /\ UNCHANGED ret

\* one iteration of the for loop of download_with_retry, given how the call
\* of download_func ends (o), the filename it returns, the transfer, what the
\* DRM servers do, and what download_drm_video, get_google_docs_export_link
\* and format_filename give for the url
RetryIteration(o, filename, tr, srv, drm, export, named) ==
    LET is_drm == func = "download_drm_video"
        is_non_drm == func = "download_non_drm_video"
        is_docs == func = "download_google_docs"
        call == <<CallEntry(CurUrl, func, attempt, o)>>
        net == IF is_drm THEN drm.requests
               ELSE IF o = "early_error" THEN <<>>
               ELSE IF is_docs THEN <<RequestEntry(CurUrl, func, export.link)>>
               ELSE IF func = "download_dropbox_file"
               THEN <<RequestEntry(CurUrl, func, DirectUrls[CurUrl])>>
               ELSE <<NetEntry(CurUrl, func)>>
        reports == AttemptReports(func, filename, tr)
        transferring == IF is_drm THEN drm.fetching ELSE o # "early_error"
    IN /\ is_drm => o = drm.outcome
       /\ (is_drm \/ is_non_drm) =>
             IF named.raised
             THEN o # "ok" /\ (is_non_drm => o = "early_error")
             ELSE o = "ok" => filename = named.value
       /\ is_docs => (o = "early_error" <=> ~export.found)
       /\ IF o = "ok"
          THEN /\ AfterRetryReturned(filename,
                     call \o net \o reports
                       \o <<emit_complete(filename, PathJoin(DestFolder, filename))>>)
               /\ UNCHANGED <<attempt, last_error>>
               /\ Responds(<<"attempt", o, filename, tr, srv, -1>>)
          ELSE /\ last_error' = IF is_drm /\ drm.error # NoError
                                THEN drm.error
                                ELSE IF is_non_drm
                                        /\ named.raised
                                THEN NoneTitleError
                                ELSE IF is_docs /\ o = "early_error"
                                THEN InvalidDocsUrlError
                                ELSE AttemptError(attempt)
               /\ \E k \in 0..(IF transferring THEN Len(reports) ELSE 0) :
                     /\ Effects(trace, call \o net \o SubSeq(reports, 1, k)
                          \o (IF sleeps_before_retry(attempt, retry_attempts)
                              THEN <<SleepEntry(CurUrl, wait_time(retry_delay, attempt))>>
                              ELSE <<>>))
                     /\ Responds(<<"attempt", o, filename, tr, srv, k>>)
               /\ attempt' = attempt + 1
               /\ UNCHANGED <<pc, results, successful, failed, idx, history,
                              history_file, clock, writes, ret>>

\* one iteration of the for loop of download_with_retry
RetryAttempt ==
    /\ pc = "retry"
    /\ attempt < retry_attempts
    /\ \E o \in Outcomes(func), filename \in DownloadedNames,
          tr \in Transfers(served, func), srv \in DrmServers(served, func) :
          RetryIteration(o, filename, tr, srv,
                         download_drm_video(CurUrl, embed_page, HAS_YT_DLP, srv),
                         ExportLinks[CurUrl][google_docs_format],
                         FileNames[CurUrl][embed_page])
    /\ UNCHANGED <<urls, exit_code, skip_existing, retry_attempts, retry_delay,
                   hist_before, dispatched, caller, func, text, served, disk,
                   embed_page, HAS_YT_DLP,
                   google_docs_format,
                   max_parallel_downloads, parallel, twin>>

\* the for loop is over: raise last_error
RetryExhausted ==
    /\ pc = "retry"
    /\ attempt >= retry_attempts
    /\ IF caller = "direct"
       THEN /\ ret' = [kind |-> "raise", value |-> raised_error(last_error),
                       flag |-> FALSE]
            /\ pc' = "done"
            /\ UNCHANGED <<trace, events, results, successful, failed, idx, history,
                           history_file, clock, writes>>
       ELSE /\ ExceptHandler(CurUrl, raised_error(last_error), trace, <<>>)
            /\ UNCHANGED ret
    /\ UNCHANGED <<urls, exit_code, skip_existing, retry_attempts, retry_delay,
                   hist_before, dispatched, caller, func, attempt, last_error,
                   responses, text, served, disk, embed_page, HAS_YT_DLP,
                   google_docs_format,
                   max_parallel_downloads, parallel, twin>>

-----------------------------------------------------------------------------
(* Dispatcher: download_video and download_bunnycdn_video *)

url_type(url) == UrlType[url][1]
is_valid(url) == UrlType[url][2]

\* download_video, line 793: not is_valid and url_type != 'unknown'
rejected_as_invalid(url) == ~is_valid(url) /\ url_type(url) # "unknown"

\* variant: the ledger is not consulted
skips_never(url) == FALSE

\* download_video, line 799: the skip check raises (outside the try)
skip_check_raises(url) == is_downloaded_raises(history, skip_existing, url)

\* download_video, line 799: the skip check
skips(url) == is_downloaded(history, skip_existing, url)

\* variant: Drive folders are handed to a downloader
RetriedTypesWithFolders ==
    {"googledrive_file", "googledocs", "dropbox", "generic_media", "googledrive_folder"}

\* the url types download_video hands to download_with_retry itself
RetriedTypes == {"googledrive_file", "googledocs", "dropbox", "generic_media"}

\* main calls download_video(url, args.output) for the next url
\* a loop that keeps up to `parallel` calls of download_video in flight
BeginDispatchPooled ==
    /\ \/ pc = "loop"
       \/ pc = "retry" /\ Len(dispatched) - Len(results) < parallel
    /\ idx <= Len(urls)
    /\ hist_before' = history
    /\ dispatched' = Append(dispatched, CurUrl)

BeginDispatch ==
    /\ pc = "loop"
    /\ idx <= Len(urls)
    /\ hist_before' = history
    /\ dispatched' = Append(dispatched, CurUrl)

NoRetryState == UNCHANGED <<caller, func, attempt, last_error, embed_page, responses>>
NoLedgerWrite == UNCHANGED <<history, history_file, clock, writes>>
ConfigUnchanged ==
    UNCHANGED <<urls, skip_existing, retry_attempts, retry_delay, text, served,
                disk, HAS_YT_DLP, google_docs_format,
                   max_parallel_downloads, parallel, twin>>

\* lines 793-797: a recognized but invalid url
DispatchInvalid ==
    /\ BeginDispatch
    /\ rejected_as_invalid(CurUrl)
    /\ Effects(<<>>, <<DispatchEntry(CurUrl),
                       emit_error(CurUrl, "Invalid " \o url_type(CurUrl) \o " URL")>>)
    /\ MainCounts(FALSE)
    /\ NoRetryState /\ NoLedgerWrite /\ ConfigUnchanged
    /\ UNCHANGED <<exit_code, ret>>

\* line 799: is_downloaded raises; the exception leaves download_video and
\* the for loop of main, which catches nothing
DispatchRaises ==
    /\ BeginDispatch
    /\ ~rejected_as_invalid(CurUrl)
    /\ skip_check_raises(CurUrl)
    /\ Effects(<<>>, <<DispatchEntry(CurUrl)>>)
    /\ pc' = "raised"
    /\ NoRetryState /\ NoLedgerWrite /\ ConfigUnchanged
    /\ UNCHANGED <<results, successful, failed, idx, exit_code, ret>>

\* lines 799-804: already downloaded
DispatchSkip ==
    /\ BeginDispatch
    /\ ~rejected_as_invalid(CurUrl)
    /\ ~skip_check_raises(CurUrl)
    /\ skips(CurUrl)
    /\ LET filename == get(history[CurUrl], "filename", "Unknown")
       IN Effects(<<>>, <<DispatchEntry(CurUrl),
                          emit_complete(filename, PathJoin(DestFolder, filename))>>)
    /\ MainCounts(TRUE)
    /\ NoRetryState /\ NoLedgerWrite /\ ConfigUnchanged
    /\ UNCHANGED <<exit_code, ret>>

\* lines 807-808 and 860-881: download_bunnycdn_video requests the embed page,
\* outside download_with_retry, and hands the DRM or the non-DRM downloader to
\* download_with_retry; a failed request goes to its except branch (893-898)
DispatchBunny ==
    /\ BeginDispatch
    /\ ~rejected_as_invalid(CurUrl)
    /\ ~skip_check_raises(CurUrl)
    /\ ~skips(CurUrl)
    /\ url_type(CurUrl) = "bunnycdn"
    /\ \E page_ok \in BOOLEAN, page \in EmbedPages(served) :
          LET begun == <<DispatchEntry(CurUrl), NetEntry(CurUrl, "download_bunnycdn_video")>>
              is_drm == PageFacts[page].is_drm
          IN /\ IF page_ok
                THEN /\ caller' = "download_bunnycdn_video"
                     /\ embed_page' = page
                     /\ func' = IF is_drm THEN "download_drm_video"
                                ELSE "download_non_drm_video"
                     /\ attempt' = 0
                     /\ last_error' = NoError
                     /\ Effects(<<>>, begun)
                     /\ pc' = "retry"
                     /\ NoLedgerWrite
                     /\ UNCHANGED <<results, successful, failed, idx>>
                ELSE /\ page = PlainPage
                     /\ ExceptHandler(CurUrl, EmbedPageError, <<>>, begun)
                     /\ UNCHANGED <<caller, func, attempt, last_error, embed_page>>
             /\ Responds(<<"embed_page", page_ok, page>>)
    /\ ConfigUnchanged
    /\ UNCHANGED <<exit_code, ret>>

\* lines 809-833 and 839-846: Drive file, Docs, Dropbox, generic media
DispatchDownloader ==
    /\ BeginDispatch
    /\ ~rejected_as_invalid(CurUrl)
    /\ ~skip_check_raises(CurUrl)
    /\ ~skips(CurUrl)
    /\ url_type(CurUrl) \in RetriedTypes
    /\ caller' = "download_video"
    /\ func' = FuncOfType(url_type(CurUrl))
    /\ attempt' = 0
    /\ last_error' = NoError
    /\ Effects(<<>>, <<DispatchEntry(CurUrl)>>)
    /\ pc' = "retry"
    /\ NoLedgerWrite /\ ConfigUnchanged
    /\ UNCHANGED <<results, successful, failed, idx, exit_code, ret, embed_page,
                   responses>>

\* lines 834-838 and 847-851: Drive folders and unknown urls
DispatchUnsupported ==
    /\ BeginDispatch
    /\ ~rejected_as_invalid(CurUrl)
    /\ ~skip_check_raises(CurUrl)
    /\ ~skips(CurUrl)
    /\ url_type(CurUrl) \notin RetriedTypes \cup {"bunnycdn"}
    /\ Effects(<<>>, <<DispatchEntry(CurUrl),
                       emit_error(CurUrl,
                          IF url_type(CurUrl) = "googledrive_folder"
                          THEN "Google Drive folders not supported"
                          ELSE "Unsupported URL type")>>)
    /\ MainCounts(FALSE)
    /\ NoRetryState /\ NoLedgerWrite /\ ConfigUnchanged
    /\ UNCHANGED <<exit_code, ret>>

-----------------------------------------------------------------------------
(* main *)

\* variant: the failures are not reported
exit_status_always_zero(f) == 0

\* sys.exit(0 if failed == 0 else 1)
exit_status(f) == IF f = 0 THEN 0 ELSE 1

MainIdle ==
    /\ NoRetryState /\ NoLedgerWrite /\ ConfigUnchanged
    /\ UNCHANGED <<results, successful, failed, idx, hist_before, trace, events,
                   dispatched, ret>>

\* lines 950-953: no urls
MainNoUrls ==
    /\ pc = "main"
    /\ urls = <<>>
    /\ exit_code' = 1
    /\ pc' = "exited"
    /\ MainIdle

\* lines 955-959: enter the loop
MainBegin ==
    /\ pc = "main"
    /\ urls # <<>>
    /\ pc' = "loop"
    /\ UNCHANGED exit_code
    /\ MainIdle

\* an exception nothing catches: the interpreter prints the traceback and
\* ends the process with status 1
MainRaised ==
    /\ pc = "raised"
    /\ exit_code' = 1
    /\ pc' = "exited"
    /\ MainIdle

\* lines 965-968: the loop is over
MainExit ==
    /\ pc = "loop"
    /\ idx > Len(urls)
    /\ exit_code' = exit_status(failed)
    /\ pc' = "exited"
    /\ MainIdle

NoRet == [kind |-> "none", value |-> "", flag |-> FALSE]

\* what every entry point starts from
FreshRun ==
    /\ idx = 1
    /\ successful = 0
    /\ failed = 0
    /\ results = <<>>
    /\ exit_code = -1
    /\ clock = 0
    /\ hist_before = history
    /\ trace = <<>>
    /\ events = <<>>
    /\ dispatched = <<>>
    /\ attempt = 0
    /\ last_error = NoError
    /\ ret = NoRet
    /\ writes = <<>>
    /\ responses = <<>>

\* ... with a DownloadManager whose ledger is the content of the history file
Fresh ==
    /\ history_file = history
    /\ FreshRun

\* a batch run: main() with its DownloadManager; args.skip_existing is always
\* True (store_true with default=True), the other config values come from the
\* config file, the ledger from the history file
Init ==
    /\ urls \in Batches
    /\ pc = "main"
    /\ skip_existing = TRUE
    /\ retry_attempts \in 0..MaxAttempts
    /\ retry_delay = DefaultRetryDelay
    /\ history \in InitLedgers(urls)
    /\ caller = "none"
    /\ func = "none"
    /\ served = "no_length"
    /\ disk = "writable"
    /\ embed_page = NoPage
    /\ HAS_YT_DLP = TRUE
    /\ google_docs_format = "pdf"
    /\ DefaultParallel
    /\ text = ""
    /\ Fresh

Next ==
    \/ MainNoUrls
    \/ MainBegin
    \/ DispatchInvalid
    \/ DispatchSkip
    \/ DispatchBunny
    \/ DispatchDownloader
    \/ DispatchUnsupported
    \/ RetryAttempt
    \/ RetryExhausted
    \/ MainExit

Spec == Init /\ [][Next]_vars

-----------------------------------------------------------------------------
(* main --url u, for the urls the classifier is studied with *)

InitSingleUrl ==
    /\ urls \in {<<>>} \cup {<<u>> : u \in ClassifierInputs}
    /\ pc = "main"
    /\ skip_existing = TRUE
    /\ retry_attempts \in 0..MaxAttempts
    /\ retry_delay = DefaultRetryDelay
    /\ history \in InitLedgers(urls)
    /\ caller = "none"
    /\ func = "none"
    /\ served = "no_length"
    /\ disk = "writable"
    /\ embed_page = NoPage
    /\ HAS_YT_DLP = TRUE
    /\ google_docs_format = "pdf"
    /\ DefaultParallel
    /\ text = ""
    /\ Fresh

SpecSingleUrl == InitSingleUrl /\ [][Next]_vars

-----------------------------------------------------------------------------
(* download_with_retry called on its own *)

\* a url a caller hands to download function f
UrlFor(f) ==
    IF f = "download_google_drive_file" THEN UrlDriveFile
    ELSE IF f = "download_google_docs" THEN UrlDocs
    ELSE IF f = "download_dropbox_file" THEN UrlDropbox
    ELSE IF f = "download_generic_file" THEN UrlGeneric
    ELSE UrlBunny

\* the embed page a caller hands to download function f
PageFor(f) ==
    IF f = "download_drm_video" THEN DrmPage
    ELSE IF f = "download_non_drm_video" THEN PlainPage
    ELSE NoPage

EmptyLedger == [u \in {} |-> NoRet]

InitRetry ==
    /\ pc = "retry"
    /\ skip_existing = TRUE
    /\ retry_attempts \in 0..MaxRetryAttempts
    /\ retry_delay \in 0..MaxRetryDelay
    /\ history = EmptyLedger
    /\ caller = "direct"
    /\ func \in Funcs
    /\ urls = <<UrlFor(func)>>
    /\ served = "no_length"
    /\ disk = "writable"
    /\ embed_page = PageFor(func)
    /\ HAS_YT_DLP = TRUE
    /\ google_docs_format = "pdf"
    /\ DefaultParallel
    /\ text = ""
    /\ Fresh

NextRetry ==
    \/ RetryAttempt
    \/ RetryExhausted

SpecRetry == InitRetry /\ [][NextRetry]_vars

-----------------------------------------------------------------------------
(* One call of a provider downloader, with everything a server or the media
   tool can report *)

InitDownloader ==
    /\ pc = "retry"
    /\ skip_existing = TRUE
    /\ retry_attempts = 1
    /\ retry_delay = 0
    /\ history = EmptyLedger
    /\ caller = "direct"
    /\ func \in Funcs
    /\ urls = <<UrlFor(func)>>
    /\ served = "any"
    /\ disk = "writable"
    /\ embed_page = PageFor(func)
    /\ HAS_YT_DLP = TRUE
    /\ google_docs_format = "pdf"
    /\ DefaultParallel
    /\ text = ""
    /\ Fresh

SpecDownloader == InitDownloader /\ [][NextRetry]_vars

-----------------------------------------------------------------------------
(* A batch of three: an unknown url, a generic media url and a url with a
   completed record, in any order *)

\* the urls the completed record can be of
RecordedUrls == URLS \ {UrlUnknown, UrlGeneric}

Permutations3(a, b, c) ==
    {s \in [1..3 -> {a, b, c}] : s[1] # s[2] /\ s[1] # s[3] /\ s[2] # s[3]}

InitEndToEnd ==
    /\ \E third \in RecordedUrls :
          /\ urls \in Permutations3(UrlUnknown, UrlGeneric, third)
          /\ history \in {h \in InitLedgers(urls) :
                            /\ third \in DOMAIN h
                            /\ \A u \in DOMAIN h \cap Range(urls) :
                                  h[u].status = "completed" <=> u = third}
    /\ pc = "main"
    /\ skip_existing = TRUE
    /\ retry_attempts \in 0..MaxAttempts
    /\ retry_delay = DefaultRetryDelay
    /\ caller = "none"
    /\ func = "none"
    /\ served = "no_length"
    /\ disk = "writable"
    /\ embed_page = NoPage
    /\ HAS_YT_DLP = TRUE
    /\ google_docs_format = "pdf"
    /\ DefaultParallel
    /\ text = ""
    /\ Fresh

NextEndToEnd ==
    \/ MainBegin
    \/ DispatchInvalid
    \/ DispatchSkip
    \/ DispatchDownloader
    \/ DispatchUnsupported
    \/ RetryAttempt
    \/ RetryExhausted
    \/ MainExit

SpecEndToEnd == InitEndToEnd /\ [][NextEndToEnd]_vars

-----------------------------------------------------------------------------
(* download_with_retry around download_drm_video, as download_bunnycdn_video
   calls it (lines 874-877), with every embed page check_for_drm accepts and
   everything the servers can do *)

MaxDrmAttempts == 2

InitDrm ==
    /\ urls = <<UrlBunny>>
    /\ pc = "retry"
    /\ skip_existing = TRUE
    /\ retry_attempts \in 1..MaxDrmAttempts
    /\ retry_delay = 0
    /\ history = EmptyLedger
    /\ caller = "direct"
    /\ func = "download_drm_video"
    /\ served = "drm"
    /\ disk = "writable"
    /\ embed_page \in DrmPages
    /\ HAS_YT_DLP \in BOOLEAN
    /\ google_docs_format = "pdf"
    /\ DefaultParallel
    /\ text = ""
    /\ Fresh

SpecDrm == InitDrm /\ [][NextRetry]_vars

-----------------------------------------------------------------------------
(* download_with_retry around download_google_docs, as download_video calls
   it (lines 819-821), for the three kinds of document and any export format *)

MaxDocsAttempts == 2

InitDocs ==
    /\ urls \in {<<UrlDocs>>, <<UrlSheet>>, <<UrlSlides>>}
    /\ pc = "retry"
    /\ skip_existing = TRUE
    /\ retry_attempts \in 1..MaxDocsAttempts
    /\ retry_delay = 0
    /\ history = EmptyLedger
    /\ caller = "direct"
    /\ func = "download_google_docs"
    /\ served = "no_length"
    /\ disk = "writable"
    /\ embed_page = NoPage
    /\ HAS_YT_DLP = TRUE
    /\ google_docs_format \in ExportFormatInputs
    /\ DefaultParallel
    /\ text = ""
    /\ Fresh

SpecDocs == InitDocs /\ [][NextRetry]_vars

-----------------------------------------------------------------------------
(* download_with_retry around download_dropbox_file, as download_video calls
   it (lines 823-825), for share links with and without dl parameters *)

InitDropbox ==
    /\ urls \in {<<u>> : u \in DropboxInputs}
    /\ pc = "retry"
    /\ skip_existing = TRUE
    /\ retry_attempts = 1
    /\ retry_delay = 0
    /\ history = EmptyLedger
    /\ caller = "direct"
    /\ func = "download_dropbox_file"
    /\ served = "no_length"
    /\ disk = "writable"
    /\ embed_page = NoPage
    /\ HAS_YT_DLP = TRUE
    /\ google_docs_format = "pdf"
    /\ DefaultParallel
    /\ text = ""
    /\ Fresh

SpecDropbox == InitDropbox /\ [][NextRetry]_vars

-----------------------------------------------------------------------------
(* Two batch runs that differ in the parallelism settings only: the program is
   run, the files are put back as they were before the run, and the program is
   run again with another max_parallel_downloads in the config file or another
   --parallel on the command line, the outside world answering as before *)

\* the largest parallelism asked for
MaxParallel == 3

ParallelSettings == {1, MaxParallel}

ParallelBatches ==
    {<<>>, <<UrlUnknown, UrlGeneric>>, <<UrlGeneric, UrlDocs>>,
     <<UrlBunny, UrlGeneric>>, <<UrlBunnyNoGuid, UrlDriveFolder>>}

InitParallel ==
    /\ urls \in ParallelBatches
    /\ pc = "main"
    /\ skip_existing = TRUE
    /\ retry_attempts \in {1, 2}
    /\ retry_delay = DefaultRetryDelay
    /\ history \in InitLedgers(IF urls = <<>> THEN <<>> ELSE <<urls[1]>>)
    /\ caller = "none"
    /\ func = "none"
    /\ served = "no_length"
    /\ disk = "writable"
    /\ embed_page = NoPage
    /\ HAS_YT_DLP = TRUE
    /\ google_docs_format = "pdf"
    /\ max_parallel_downloads \in ParallelSettings
    /\ parallel \in ParallelSettings
    /\ twin = [run |-> 1, history |-> history]
    /\ text = ""
    /\ Fresh

\* the second run begins: main() again, lines 904-935
Rerun ==
    /\ pc = "exited"
    /\ twin.run = 1
    /\ \E m \in ParallelSettings, p \in ParallelSettings :
          /\ <<m, p>> # <<max_parallel_downloads, parallel>>
          /\ max_parallel_downloads' = m
          /\ parallel' = p
    /\ twin' = [run |-> 2, history |-> twin.history, responses |-> responses,
                events |-> events, writes |-> writes, results |-> results,
                exit_code |-> exit_code,
                settings |-> <<max_parallel_downloads, parallel>>]
    /\ history' = twin.history
    /\ history_file' = twin.history
    /\ hist_before' = twin.history
    /\ pc' = "main"
    /\ idx' = 1
    /\ successful' = 0
    /\ failed' = 0
    /\ results' = <<>>
    /\ exit_code' = -1
    /\ clock' = 0
    /\ trace' = <<>>
    /\ events' = <<>>
    /\ dispatched' = <<>>
    /\ attempt' = 0
    /\ last_error' = NoError
    /\ ret' = NoRet
    /\ writes' = <<>>
    /\ responses' = <<>>
    /\ caller' = "none"
    /\ func' = "none"
    /\ embed_page' = NoPage
    /\ UNCHANGED <<urls, skip_existing, retry_attempts, retry_delay, text, served,
                   disk, HAS_YT_DLP, google_docs_format>>

NextParallel ==
    \/ MainNoUrls
    \/ MainBegin
    \/ DispatchInvalid
    \/ DispatchSkip
    \/ DispatchBunny
    \/ DispatchDownloader
    \/ DispatchUnsupported
    \/ RetryAttempt
    \/ RetryExhausted
    \/ MainExit
    \/ Rerun

SpecParallel == InitParallel /\ [][NextParallel]_vars

-----------------------------------------------------------------------------
(* The ledger operations called on their own *)

ApiUrls == {UrlGeneric, UrlUnknown, UrlEarlier}
ApiNames == DownloadedNames \cup StoredNames

ApiIdle ==
    /\ NoRetryState /\ ConfigUnchanged
    /\ UNCHANGED <<results, successful, failed, idx, hist_before, events,
                   dispatched, exit_code, pc>>

\* manager.mark_downloaded(url, filename, status, folder)
ApiMarkDownloaded ==
    /\ pc = "api"
    /\ Len(trace) < MaxCalls
    /\ \E u \in ApiUrls, f \in ApiNames, st \in Statuses :
          /\ MarkDownloaded(u, f, st, DestFolder)
          /\ trace' = Append(trace, MarkEntry(u, f, st, clock + 1))
    /\ ret' = NoRet
    /\ ApiIdle

\* manager.is_downloaded(url)
ApiIsDownloaded ==
    /\ pc = "api"
    /\ Len(trace) < MaxCalls
    /\ \E u \in ApiUrls :
          /\ ret' = [kind |-> "is_downloaded", value |-> u,
                     flag |-> is_downloaded(history, skip_existing, u)]
          /\ trace' = Append(trace, QueryEntry(u))
    /\ NoLedgerWrite
    /\ ApiIdle

\* a DownloadManager right after construction: skip_existing comes from the
\* config file, the ledger from the history file (absent, or with a record)
InitLedger ==
    /\ urls = <<>>
    /\ pc = "api"
    /\ skip_existing \in BOOLEAN
    /\ retry_attempts = 0
    /\ retry_delay = DefaultRetryDelay
    /\ history \in {EmptyLedger} \cup InitLedgers(<<>>)
    /\ caller = "none"
    /\ func = "none"
    /\ served = "no_length"
    /\ disk = "writable"
    /\ embed_page = NoPage
    /\ HAS_YT_DLP = TRUE
    /\ google_docs_format = "pdf"
    /\ DefaultParallel
    /\ text = ""
    /\ Fresh

NextLedger ==
    \/ ApiMarkDownloaded
    \/ ApiIsDownloaded

SpecLedger == InitLedger /\ [][NextLedger]_vars

-----------------------------------------------------------------------------
(* main from the construction of the DownloadManager on, with a history file
   of any content *)

\* the first url of the batch: an embed url, an invalid embed url, a media
\* url, a Drive folder and an unknown url
LoadUrls == {UrlBunny, UrlBunnyNoGuid, UrlGeneric, UrlDriveFolder, UrlUnknown}

LoadBatches == {<<u>> : u \in LoadUrls} \cup {<<u, UrlDocs>> : u \in LoadUrls}

\* What HISTORY_FILE can hold when the program starts, given the first url u
\* of the batch: nothing (absent), text json.load rejects, a JSON value that
\* is not an object, an object whose value for u is not a record, an object
\* of records.
StoredFiles(u) ==
    {FileAbsent, FileUnparsable,
     JsonList(<<>>), JsonList(<<u>>), JsonStr("done"), JsonStr(u),
     JsonInt(0), JsonNull,
     [k \in {u} |-> JsonStr("completed")],
     [k \in {u} |-> EmptyDict]}
    \cup {[k \in {u} |-> r] : r \in StoredRecords}

\* DownloadManager.__init__, line 220: self.history = self.load_history()
ManagerInit ==
    /\ pc = "init"
    /\ history' = load_history(history_file)
    /\ pc' = "main"
    /\ NoRetryState /\ ConfigUnchanged
    /\ UNCHANGED <<results, successful, failed, idx, hist_before, trace, events,
                   dispatched, ret, exit_code, history_file, clock, writes>>

InitLoad ==
    /\ urls \in LoadBatches
    /\ pc = "init"
    /\ skip_existing = TRUE
    /\ retry_attempts = 1
    /\ retry_delay = DefaultRetryDelay
    /\ history = EmptyDict
    /\ history_file \in StoredFiles(urls[1])
    /\ caller = "none"
    /\ func = "none"
    /\ served = "no_length"
    /\ disk = "writable"
    /\ embed_page = NoPage
    /\ HAS_YT_DLP = TRUE
    /\ google_docs_format = "pdf"
    /\ DefaultParallel
    /\ text = ""
    /\ FreshRun

NextLoad ==
    \/ ManagerInit
    \/ MainBegin
    \/ DispatchInvalid
    \/ DispatchRaises
    \/ DispatchSkip
    \/ DispatchBunny
    \/ DispatchDownloader
    \/ DispatchUnsupported
    \/ RetryAttempt
    \/ RetryExhausted
    \/ MainRaised
    \/ MainExit

SpecLoad == InitLoad /\ [][NextLoad]_vars

-----------------------------------------------------------------------------
(* A batch of two downloads in a directory where writing the history file can
   fail *)

InitStore ==
    /\ urls = <<UrlGeneric, UrlDocs>>
    /\ pc = "main"
    /\ skip_existing = TRUE
    /\ retry_attempts = 1
    /\ retry_delay = DefaultRetryDelay
    /\ history \in InitLedgers(urls)
    /\ caller = "none"
    /\ func = "none"
    /\ served = "no_length"
    /\ disk = "failing"
    /\ embed_page = NoPage
    /\ HAS_YT_DLP = TRUE
    /\ google_docs_format = "pdf"
    /\ DefaultParallel
    /\ text = ""
    /\ Fresh

NextStore ==
    \/ MainBegin
    \/ DispatchSkip
    \/ DispatchDownloader
    \/ RetryAttempt
    \/ RetryExhausted
    \/ MainExit

SpecStore == InitStore /\ [][NextStore]_vars

-----------------------------------------------------------------------------
(* URL extractor: extract_urls_from_text *)

\* the characters one step of the token pattern accepts: letters, digits, the
\* range $-_ (which holds % and the backslash), @ . & + and ! * ( ) ,
UrlChars ==
    LowerLetters \o UpperLetters \o Digits \o "!$%&'()*+,-./:;<=>?@[\\]^_"

\* url_pattern.finditer(text) from position i on: the matched tokens, in order
RECURSIVE url_matches(_, _)
url_matches(t, i) ==
    IF i > Len(t)
    THEN <<>>
    ELSE LET scheme == IF HasAt(t, i, "https://") THEN "https://"
                       ELSE IF HasAt(t, i, "http://") THEN "http://"
                       ELSE ""
             e == RunEnd(t, i + Len(scheme), UrlChars)
         IN IF scheme # "" /\ e >= i + Len(scheme)
            THEN <<SubSeq(t, i, e)>> \o url_matches(t, e + 1)
            ELSE url_matches(t, i + 1)

\* s without its trailing run of cls characters
RECURSIVE StripTrailing(_, _)
StripTrailing(s, cls) ==
    IF InClass(Ch(s, Len(s)), cls)
    THEN StripTrailing(SubSeq(s, 1, Len(s) - 1), cls)
    ELSE s

\* str.count(c)
RECURSIVE Count(_, _)
Count(s, c) ==
    IF s = "" THEN 0 ELSE (IF Head(s) = c THEN 1 ELSE 0) + Count(Tail(s), c)

\* the punctuation of r'[.,;:!?\s]+$' a token can end with
TrailingPunctuation == ".,;:!?"

\* lines 245-247: what is appended to urls for a matched token
clean_token(token) ==
    LET url == StripTrailing(token, TrailingPunctuation)
    IN IF Count(url, "(") < Count(url, ")") THEN StripTrailing(url, ")") ELSE url

\* variant: nothing is dropped
unique_urls_keeps_all(found, i, acc) == found

\* lines 250-255: every url once, where it first occurs
RECURSIVE unique_urls(_, _, _)
unique_urls(found, i, acc) ==
    IF i > Len(found)
    THEN acc
    ELSE unique_urls(found, i + 1,
                     IF found[i] \in Range(acc) THEN acc ELSE Append(acc, found[i]))

\* extract_urls_from_text(text)
extract_urls_from_text(t) ==
    LET m == url_matches(t, 1)
    IN unique_urls([i \in 1..Len(m) |-> clean_token(m[i])], 1, <<>>)

\* pieces of input text
Pieces ==
    {"https://a.com/x ",
     "see https://a.com/x, ",
     "https://b.org/y https://a.com/x) ",
     "(https://b.org/(y)). ",
     "https://c.net/z)) ",
     "http://a.com/x#frag ",
     "https://b.org/y. ",
     "no url here "}

RECURSIVE Concat(_)
Concat(ps) == IF ps = <<>> THEN "" ELSE Head(ps) \o Concat(Tail(ps))

\* the contents of the input file
Texts == {Concat(ps) : ps \in SeqsUpTo(Pieces, MaxPieces)}

TokenEntry(token, url, i) == Entry("token", token, url, "", i)
ExtractEntry(t) == Entry("extract", t, "", "", 0)

ExtractIdle ==
    /\ NoRetryState /\ NoLedgerWrite
    /\ UNCHANGED <<results, successful, failed, idx, hist_before, events, dispatched,
                   exit_code, skip_existing, retry_attempts, retry_delay, text, served,
                   disk, HAS_YT_DLP, google_docs_format,
                   max_parallel_downloads, parallel, twin>>

\* main, lines 941-944: urls = manager.extract_urls_from_text(content); the
\* trace holds every matched token and what was appended for it
MainExtract ==
    /\ pc = "input"
    /\ urls' = extract_urls_from_text(text)
    /\ LET m == url_matches(text, 1)
       IN trace' = [i \in 1..Len(m) |-> TokenEntry(m[i], clean_token(m[i]), i)]
    /\ pc' = "extracted"
    /\ UNCHANGED ret
    /\ ExtractIdle

\* manager.extract_urls_from_text(content), once more
ApiExtract ==
    /\ pc = "extracted"
    /\ Len(SelectSeq(trace, LAMBDA e : e.kind = "extract")) < MaxCalls
    /\ ret' = [kind |-> "extract", value |-> extract_urls_from_text(text),
               flag |-> FALSE]
    /\ trace' = Append(trace, ExtractEntry(text))
    /\ UNCHANGED <<urls, pc>>
    /\ ExtractIdle

InitExtract ==
    /\ urls = <<>>
    /\ pc = "input"
    /\ skip_existing = TRUE
    /\ retry_attempts = 0
    /\ retry_delay = DefaultRetryDelay
    /\ history = EmptyLedger
    /\ caller = "none"
    /\ func = "none"
    /\ served = "no_length"
    /\ disk = "writable"
    /\ embed_page = NoPage
    /\ HAS_YT_DLP = TRUE
    /\ google_docs_format = "pdf"
    /\ DefaultParallel
    /\ text \in Texts
    /\ Fresh

NextExtract ==
    \/ MainExtract
    \/ ApiExtract

SpecExtract == InitExtract /\ [][NextExtract]_vars

-----------------------------------------------------------------------------
(* detect_url_type called on its own *)

DetectEntry(url, tag, valid) ==
    Entry("detect_url_type", url, tag, IF valid THEN "valid" ELSE "invalid", 0)

\* manager.detect_url_type(url)
ApiDetectUrlType ==
    /\ pc = "api"
    /\ Len(trace) < MaxCalls
    /\ ret' = [kind |-> "detect_url_type", value |-> url_type(CurUrl),
               flag |-> is_valid(CurUrl)]
    /\ trace' = Append(trace, DetectEntry(CurUrl, url_type(CurUrl), is_valid(CurUrl)))
    /\ NoLedgerWrite
    /\ ApiIdle

\* a DownloadManager right after construction, and the url to classify
InitClassify ==
    /\ urls \in {<<u>> : u \in ClassifierInputs}
    /\ pc = "api"
    /\ skip_existing \in BOOLEAN
    /\ retry_attempts = 0
    /\ retry_delay = DefaultRetryDelay
    /\ history \in {EmptyLedger} \cup InitLedgers(<<>>)
    /\ caller = "none"
    /\ func = "none"
    /\ served = "no_length"
    /\ disk = "writable"
    /\ embed_page = NoPage
    /\ HAS_YT_DLP = TRUE
    /\ google_docs_format = "pdf"
    /\ DefaultParallel
    /\ text = ""
    /\ Fresh

NextClassify == ApiDetectUrlType

SpecClassify == InitClassify /\ [][NextClassify]_vars

-----------------------------------------------------------------------------
(* _get_best_resolution called on its own *)

MaxResolutions == 3

ResolutionPool == {"640x360", "1280x720", "854x480", "1920x1080", "960x720"}

\* a playlist that lists the resolutions of s, one per line
RECURSIVE PlaylistLines(_)
PlaylistLines(s) ==
    IF s = <<>> THEN ""
    ELSE Head(s) \o "/video.drm\n" \o PlaylistLines(Tail(s))

\* what the server can answer to the playlist request: up to MaxResolutions
\* different resolutions in any order, or text without a resolution
Playlists ==
    {"#EXTM3U\n" \o PlaylistLines(s) :
        s \in UNION {{q \in [1..n -> ResolutionPool] :
                         \A i, j \in 1..n : i < j => q[i] # q[j]}
                     : n \in 0..MaxResolutions}}
    \cup {"", "640x360/audio.drm\n", "x720/video.drm\n"}

\* manager._get_best_resolution(guid, context_id, secret)
ApiGetBestResolution ==
    /\ pc = "api"
    /\ \E context_id \in {"ctx-1", "ctx_2"}, body \in Playlists :
          LET request == playlist_request("ab-cd", context_id, "s3cret")
              best == best_resolution(body)
          IN /\ ret' = [kind |-> IF best.raised THEN "raise" ELSE "return",
                        value |-> best.value, flag |-> FALSE]
             /\ trace' = <<RequestEntry(CurUrl, "_get_best_resolution", request),
                           ResponseEntry(request, body)>>
    /\ pc' = "done"
    /\ NoLedgerWrite /\ NoRetryState /\ ConfigUnchanged
    /\ UNCHANGED <<results, successful, failed, idx, hist_before, events,
                   dispatched, exit_code>>

InitResolution ==
    /\ urls = <<UrlBunny>>
    /\ pc = "api"
    /\ skip_existing = TRUE
    /\ retry_attempts = 0
    /\ retry_delay = DefaultRetryDelay
    /\ history = EmptyLedger
    /\ caller = "none"
    /\ func = "none"
    /\ served = "no_length"
    /\ disk = "writable"
    /\ embed_page = NoPage
    /\ HAS_YT_DLP = TRUE
    /\ google_docs_format = "pdf"
    /\ DefaultParallel
    /\ text = ""
    /\ Fresh

NextResolution == ApiGetBestResolution

SpecResolution == InitResolution /\ [][NextResolution]_vars

-----------------------------------------------------------------------------
(* Progress reporting over wall time: one transfer, the chunks (or the yt-dlp
   hook calls) arriving at chosen times.  Time is counted in tenths of a
   second. *)

\* most chunks or hook calls of the transfer
MaxArrivals == 3
\* longest time between two arrivals
MaxGap == 6
\* time.time() when the transfer begins (any value above the throttle)
Epoch == 10

\* DownloadProgress.__call__, line 180: current_time - self.last_printed > 0.5
prints_line(current_time, last_printed) == current_time - last_printed > 5

\* whether a chunk or hook call at current_time is reported (Progress event
\* in machine-readable mode, console line otherwise).
\*   "http": the chunk loop of download_generic_file with a Content-Length
\*           (lines 633-639), the other streamed downloaders alike;
\*   "fragment": a hook call with fragment_index and fragment_count > 0
\*           (lines 127-148);
\*   "plain": another hook call while downloading, without a tqdm bar
\*           (lines 151-183).
reports(path, json, current_time, last_printed) ==
    IF path = "plain" /\ ~json THEN prints_line(current_time, last_printed)
    ELSE TRUE

TransferEntry(path, json) ==
    Entry("transfer", "", path, IF json THEN "json" ELSE "console", Epoch)
ArrivalEntry(t) == Entry("arrival", "", "", "", t)
ReportEntry(t) == Entry("report", "", "", "", t)

IsReport(e) == e.kind = "report"

\* self.last_printed: 0 until the throttled branch printed
LastPrinted ==
    LET printed == SelectSeq(trace, IsReport)
    IN IF trace[1].file = "plain" /\ trace[1].info = "console" /\ printed # <<>>
       THEN printed[Len(printed)].n
       ELSE 0

\* the transfer begins
ApiTransferBegin ==
    /\ pc = "api"
    /\ trace = <<>>
    /\ \E path \in {"http", "fragment", "plain"}, json \in BOOLEAN :
          trace' = <<TransferEntry(path, json)>>
    /\ UNCHANGED <<pc, ret>>
    /\ NoLedgerWrite /\ NoRetryState /\ ConfigUnchanged
    /\ UNCHANGED <<results, successful, failed, idx, hist_before, events,
                   dispatched, exit_code>>

\* one chunk is read, or the hook is called once
ApiArrival ==
    /\ pc = "api"
    /\ trace # <<>>
    /\ Len(SelectSeq(trace, LAMBDA e : e.kind = "arrival")) < MaxArrivals
    /\ \E gap \in 0..MaxGap :
          LET now == trace[Len(trace)].n + gap
          IN trace' = trace \o <<ArrivalEntry(now)>>
                \o (IF reports(trace[1].file, trace[1].info = "json", now, LastPrinted)
                    THEN <<ReportEntry(now)>> ELSE <<>>)
    /\ UNCHANGED <<pc, ret>>
    /\ NoLedgerWrite /\ NoRetryState /\ ConfigUnchanged
    /\ UNCHANGED <<results, successful, failed, idx, hist_before, events,
                   dispatched, exit_code>>

InitThrottle ==
    /\ urls = <<UrlGeneric>>
    /\ pc = "api"
    /\ skip_existing = TRUE
    /\ retry_attempts = 0
    /\ retry_delay = DefaultRetryDelay
    /\ history = EmptyLedger
    /\ caller = "none"
    /\ func = "none"
    /\ served = "any"
    /\ disk = "writable"
    /\ embed_page = NoPage
    /\ HAS_YT_DLP = TRUE
    /\ google_docs_format = "pdf"
    /\ DefaultParallel
    /\ text = ""
    /\ Fresh

NextThrottle ==
    \/ ApiTransferBegin
    \/ ApiArrival

SpecThrottle == InitThrottle /\ [][NextThrottle]_vars

-----------------------------------------------------------------------------
(* A batch run in machine-readable mode with every transfer within the
   bounds: the responses declare any Content-Length, the hook of the media tool
   is called with any dictionaries.  Each batch holds a url that is handed to a
   downloader and one that is not. *)

MaxEventAttempts == 2

EventBatches ==
    {<<UrlGeneric, UrlUnknown>>, <<UrlBunny, UrlDriveFolder>>,
     <<UrlDocs, UrlBunnyNoGuid>>, <<UrlUnknown, UrlDropbox>>,
     <<UrlDriveFolder, UrlDriveFile>>}

InitEvents ==
    /\ urls \in EventBatches
    /\ pc = "main"
    /\ skip_existing = TRUE
    /\ retry_attempts \in 0..MaxEventAttempts
    /\ retry_delay = DefaultRetryDelay
    /\ history \in InitLedgers(urls)
    /\ caller = "none"
    /\ func = "none"
    /\ served = "any"
    /\ disk = "writable"
    /\ embed_page = NoPage
    /\ HAS_YT_DLP = TRUE
    /\ google_docs_format = "pdf"
    /\ DefaultParallel
    /\ text = ""
    /\ Fresh

NextEvents ==
    \/ MainBegin
    \/ DispatchInvalid
    \/ DispatchSkip
    \/ DispatchBunny
    \/ DispatchDownloader
    \/ DispatchUnsupported
    \/ RetryAttempt
    \/ RetryExhausted
    \/ MainExit

SpecEvents == InitEvents /\ [][NextEvents]_vars

-----------------------------------------------------------------------------
(* Two runs of the program on the same urls, the second with the ledger the
   first one stored *)

RerunBatches ==
    {<<UrlGeneric>>, <<UrlBunny>>, <<UrlDriveFile>>, <<UrlDocs, UrlDropbox>>}

InitRerun ==
    /\ urls \in RerunBatches
    /\ pc = "main"
    /\ skip_existing = TRUE
    /\ retry_attempts \in 0..MaxEventAttempts
    /\ retry_delay = DefaultRetryDelay
    /\ history \in InitLedgers(urls)
    /\ caller = "none"
    /\ func = "none"
    /\ served = "no_length"
    /\ disk = "writable"
    /\ embed_page = NoPage
    /\ HAS_YT_DLP = TRUE
    /\ google_docs_format = "pdf"
    /\ max_parallel_downloads = 3
    /\ parallel = 1
    /\ twin = [run |-> 1, history |-> history]
    /\ text = ""
    /\ Fresh

\* the program is started again with the same arguments: __init__ loads the
\* ledger from the history file (line 220), main() begins (lines 904-935)
RunAgain ==
    /\ pc = "exited"
    /\ twin.run = 1
    /\ twin' = [run |-> 3, history |-> twin.history, results |-> results,
                dispatched |-> dispatched, stored |-> history_file]
    /\ history' = load_history(history_file)
    /\ hist_before' = load_history(history_file)
    /\ pc' = "main"
    /\ idx' = 1
    /\ successful' = 0
    /\ failed' = 0
    /\ results' = <<>>
    /\ exit_code' = -1
    /\ clock' = 0
    /\ trace' = <<>>
    /\ events' = <<>>
    /\ dispatched' = <<>>
    /\ attempt' = 0
    /\ last_error' = NoError
    /\ ret' = NoRet
    /\ writes' = <<>>
    /\ responses' = <<>>
    /\ caller' = "none"
    /\ func' = "none"
    /\ embed_page' = NoPage
    /\ UNCHANGED <<urls, skip_existing, retry_attempts, retry_delay, text, served,
                   disk, HAS_YT_DLP, google_docs_format, history_file,
                   max_parallel_downloads, parallel>>

NextRerun ==
    \/ MainBegin
    \/ DispatchSkip
    \/ DispatchBunny
    \/ DispatchDownloader
    \/ RetryAttempt
    \/ RetryExhausted
    \/ MainExit
    \/ RunAgain

SpecRerun == InitRerun /\ [][NextRerun]_vars

-----------------------------------------------------------------------------
(* download_with_retry called on its own, by a manager whose configuration
   was read from the config file *)

\* DEFAULT_CONFIG['retry_attempts']
DefaultRetryAttempts == 3

\* DEFAULT_CONFIG, lines 67-77: the keys the manager reads
DEFAULT_CONFIG ==
    [max_parallel_downloads |-> 3,
     retry_attempts |-> DefaultRetryAttempts,
     retry_delay |-> DefaultRetryDelay,
     skip_existing |-> TRUE,
     google_docs_format |-> "pdf"]

\* DownloadManager.load_config: the object of the file with the missing keys
\* taken from DEFAULT_CONFIG; DEFAULT_CONFIG when the file is absent, when
\* json.load raises, and when the value is not an object (`key not in config`
\* or `config[key] = value` raises, and the bare except passes)
load_config(file) ==
    IF JsonType(file) # "dict" THEN DEFAULT_CONFIG
    ELSE [k \in DOMAIN DEFAULT_CONFIG \cup DOMAIN file |->
             IF k \in DOMAIN file THEN file[k] ELSE DEFAULT_CONFIG[k]]

\* What CONFIG_FILE can hold: nothing, text json.load rejects, a list, an
\* empty object, an object that sets retry_attempts
ConfigFiles ==
    {FileAbsent, FileUnparsable, JsonList(<<>>), EmptyDict}
    \cup {[retry_attempts |-> n] : n \in ({-1} \cup (0..MaxRetryAttempts))}

InitConfig ==
    /\ pc = "retry"
    /\ skip_existing = TRUE
    /\ \E f \in ConfigFiles :
          /\ retry_attempts = load_config(f).retry_attempts
          /\ retry_delay = load_config(f).retry_delay
    /\ history = EmptyLedger
    /\ caller = "direct"
    /\ func \in Funcs
    /\ urls = <<UrlFor(func)>>
    /\ served = "no_length"
    /\ disk = "writable"
    /\ embed_page = PageFor(func)
    /\ HAS_YT_DLP = TRUE
    /\ google_docs_format = "pdf"
    /\ DefaultParallel
    /\ text = ""
    /\ Fresh

SpecConfig == InitConfig /\ [][NextRetry]_vars

-----------------------------------------------------------------------------
(* A batch with a BunnyCDN embed url whose embed page has the title tag or
   lacks it; the handshake succeeds, the download by the media tool succeeds
   or fails *)

MetadataBatches == {<<UrlBunny>>, <<UrlGeneric, UrlBunny>>}

InitMetadata ==
    /\ urls \in MetadataBatches
    /\ pc = "main"
    /\ skip_existing = TRUE
    /\ retry_attempts \in 1..MaxDrmAttempts
    /\ retry_delay = DefaultRetryDelay
    /\ history \in InitLedgers(urls)
    /\ caller = "none"
    /\ func = "none"
    /\ served = "untitled"
    /\ disk = "writable"
    /\ embed_page = NoPage
    /\ HAS_YT_DLP = TRUE
    /\ google_docs_format = "pdf"
    /\ DefaultParallel
    /\ text = ""
    /\ Fresh

NextMetadata ==
    \/ MainBegin
    \/ DispatchSkip
    \/ DispatchBunny
    \/ DispatchDownloader
    \/ RetryAttempt
    \/ RetryExhausted
    \/ MainExit

SpecMetadata == InitMetadata /\ [][NextMetadata]_vars

-----------------------------------------------------------------------------
(* Properties *)

OfKind(k) == SelectSeq(trace, LAMBDA e : e.kind = k)
Calls == OfKind("call")
FailedCalls == SelectSeq(Calls, LAMBDA e : e.file # "ok")
Sleeps == OfKind("sleep")
Last(s) == s[Len(s)]

\* the last call of download_video has returned to main
Returned == pc \in {"loop", "exited"} /\ dispatched # <<>>
LastUrl == Last(dispatched)
LastResult == Last(results)

\* the ledger held a completed record of u when the dispatch of u began
HadCompleted(u) == u \in DOMAIN hist_before /\ hist_before[u].status = "completed"

\* the dispatch of u did nothing but emit Complete with the recorded filename
SkippedAsNoOp(u) ==
    LET f == hist_before[u].filename
    IN /\ trace = <<DispatchEntry(u), emit_complete(f, PathJoin(DestFolder, f))>>
       /\ LastResult = TRUE
       /\ history = hist_before
       /\ history_file = hist_before

\* C1, as stated: with skip-if-exists enabled, dispatching any url that has a
\* completed record sends no request, sleeps never, emits exactly one
\* Complete with the recorded filename, returns success and leaves the ledger
\* unchanged.
C1_SkipEveryCompleted ==
    (Returned /\ skip_existing /\ HadCompleted(LastUrl)) => SkippedAsNoOp(LastUrl)

\* C1, amended: the same, for every url that is not a recognized but invalid
\* url (download_video rejects those before it looks at the ledger).
C1_SkipCompletedUnlessInvalid ==
    (Returned /\ skip_existing /\ HadCompleted(LastUrl)
        /\ ~rejected_as_invalid(LastUrl)) => SkippedAsNoOp(LastUrl)

C1_Witness ==
    /\ Returned /\ skip_existing /\ HadCompleted(LastUrl)
    /\ ~rejected_as_invalid(LastUrl)
    /\ Len(dispatched) = 2
    /\ LastResult = TRUE
    /\ Len(trace) = 2

\* C2: when the wrapped operation fails k < retry_attempts times and then
\* succeeds, download_with_retry has called it k + 1 times, returns the value
\* the operation returned, and has slept k times, the j-th time for
\* retry_delay * j; it never gives up after fewer than retry_attempts failures.
C2_RetryUntilSuccess ==
    /\ (pc = "done" /\ ret.kind = "return") =>
          /\ Len(FailedCalls) < retry_attempts
          /\ Len(Calls) = Len(FailedCalls) + 1
          /\ Last(Calls).file = "ok"
          /\ \A i \in 1..Len(FailedCalls) : Calls[i] = FailedCalls[i]
          /\ Len(OfKind("complete")) = 1
          /\ ret.value = OfKind("complete")[1].file
          /\ Len(Sleeps) = Len(FailedCalls)
          /\ \A j \in 1..Len(Sleeps) : Sleeps[j].n = retry_delay * j
    /\ (pc = "done" /\ ret.kind = "raise") => Len(FailedCalls) >= retry_attempts

C2_Witness ==
    /\ pc = "done" /\ ret.kind = "return"
    /\ Len(FailedCalls) = 2
    /\ retry_delay = 2
    /\ Sleeps[2].n = 4

\* C3: when the wrapped operation fails in every attempt (retry_attempts >= 1),
\* download_with_retry has called it exactly retry_attempts times, has slept
\* retry_attempts - 1 times, not after the final failure, and raises the error
\* of the last attempt.
C3_RetryExhausted ==
    (pc = "done" /\ ret.kind = "raise" /\ retry_attempts >= 1) =>
        /\ Len(Calls) = retry_attempts
        /\ FailedCalls = Calls
        /\ Len(Sleeps) = retry_attempts - 1
        /\ Last(trace).kind # "sleep"
        /\ Last(Calls).n = retry_attempts - 1
        /\ ret.value = AttemptError(Last(Calls).n)

C3_Witness ==
    /\ pc = "done" /\ ret.kind = "raise"
    /\ retry_attempts = 3
    /\ Len(Calls) = 3
    /\ Len(Sleeps) = 2

\* C4: after mark_downloaded(url, ...) the ledger holds exactly one record of
\* url, with the filename, status and folder of that call, whatever was
\* recorded before; with skip-if-exists enabled is_downloaded(url) is then
\* true after a completed mark and false after a failed one.
C4_MarkUpserts ==
    (pc = "api" /\ trace # <<>> /\ Last(trace).kind = "mark") =>
        LET e == Last(trace)
        IN /\ Cardinality({k \in DOMAIN history : k = e.key}) = 1
           /\ history[e.key] = [filename |-> e.file, status |-> e.info,
                                timestamp |-> e.n, folder |-> DestFolder]
           /\ history_file = history
           /\ skip_existing =>
                 (is_downloaded(history, skip_existing, e.key) <=> e.info = "completed")

C4_Witness ==
    /\ pc = "api" /\ Len(trace) >= 2 /\ skip_existing
    /\ Last(trace).kind = "mark"
    /\ trace[Len(trace) - 1].kind = "mark"
    /\ trace[Len(trace) - 1].key = Last(trace).key
    /\ trace[Len(trace) - 1].info = "completed"
    /\ Last(trace).info = "failed"
    /\ trace[Len(trace) - 1].file # Last(trace).file

\* C5: is_downloaded(url) answers true exactly when skip-if-exists is enabled
\* and the ledger holds a record of url with status completed: never with the
\* policy disabled, never without a record, never for a failed record.
C5_IsDownloaded ==
    (pc = "api" /\ ret.kind = "is_downloaded") =>
        /\ ret.flag <=> (/\ skip_existing
                         /\ ret.value \in DOMAIN history
                         /\ history[ret.value].status = "completed")
        /\ ~skip_existing => ~ret.flag
        /\ ret.value \notin DOMAIN history => ~ret.flag
        /\ (ret.value \in DOMAIN history /\ history[ret.value].status = "failed")
              => ~ret.flag

C5_Witness ==
    /\ pc = "api" /\ ret.kind = "is_downloaded"
    /\ ~skip_existing
    /\ ret.value \in DOMAIN history
    /\ history[ret.value].status = "completed"
    /\ ~ret.flag

\* C6: the run exits non-zero exactly when download_video returned failure for
\* some url or there was no url at all, and 0 otherwise.
C6_ExitStatus ==
    pc = "exited" =>
        /\ exit_code \in {0, 1}
        /\ exit_code # 0 <=>
              (urls = <<>> \/ \E i \in 1..Len(results) : results[i] = FALSE)

C6_Witness ==
    /\ pc = "exited" /\ exit_code = 1
    /\ Len(results) = 2
    /\ results[1] = TRUE
    /\ results[2] = FALSE

\* C7: when the run exits 0, every url of the batch has a completed record in
\* the ledger.
C7_ExitZeroAllCompleted ==
    (pc = "exited" /\ exit_code = 0) =>
        \A i \in 1..Len(urls) :
            /\ urls[i] \in DOMAIN history
            /\ history[urls[i]].status = "completed"

C7_Witness ==
    /\ pc = "exited" /\ exit_code = 0
    /\ Len(urls) = 2
    /\ results = <<TRUE, TRUE>>
    /\ clock = 1
    /\ Len(trace) = 2

\* C8: every dispatch that ends in failure has emitted an Error event for the
\* url and leaves a failed record of the url in the ledger.
C8_FailureRecorded ==
    (Returned /\ LastResult = FALSE) =>
        /\ \E i \in 1..Len(trace) :
              trace[i].kind = "error" /\ trace[i].file = LastUrl
        /\ LastUrl \in DOMAIN history
        /\ history[LastUrl].status = "failed"

C10_UnsupportedNoNetwork ==
    (trace # <<>> /\ trace[1].kind = "dispatch"
        /\ url_type(trace[1].key) \in {"unknown", "googledrive_folder"}) =>
        /\ pc # "retry"
        /\ OfKind("net") = <<>>
        /\ Calls = <<>>
        /\ Sleeps = <<>>
        /\ (Returned /\ ~HadCompleted(LastUrl)) => (LastResult = FALSE /\ failed >= 1)

C10_Witness ==
    /\ Returned
    /\ url_type(LastUrl) = "googledrive_folder"
    /\ ~HadCompleted(LastUrl)
    /\ LastResult = FALSE
    /\ Len(dispatched) = 2

\* the marker detect_url_type looks for first
EmbedMarker == "iframe.mediadelivery.net/embed/"

\* url contains /embed/<digits>/<guid>, the guid a non-empty run of the
\* characters a-f, 0-9 and the dash
HasEmbedDigitsGuid(url) ==
    \E i \in 1..Len(url) :
        /\ HasAt(url, i, "/embed/")
        /\ \E j \in (i + 8)..Len(url) :
              /\ Ch(url, j) = "/"
              /\ \A k \in (i + 7)..(j - 1) : InClass(Ch(url, k), Digits)
              /\ InClass(Ch(url, j + 1), HexDash)

\* the inputs with the marker, and those of them with the pattern
MarkedInputs == {u \in ClassifierInputs : Contains(u, EmbedMarker)}
GuidInputs == {u \in MarkedInputs : HasEmbedDigitsGuid(u)}

\* C11: a url with the embed marker is classified bunnycdn, valid exactly
\* when it contains /embed/<digits>/<non-empty guid>; the dispatch of an
\* invalid one emits an Error and returns failure, with no request, no call
\* through the retry executor, no sleep and no ledger write.
C11_EmbedUrlValidity ==
    (dispatched # <<>> /\ LastUrl \in MarkedInputs) =>
        /\ url_type(LastUrl) = "bunnycdn"
        /\ is_valid(LastUrl) <=> LastUrl \in GuidInputs
        /\ LastUrl \notin GuidInputs =>
              /\ pc # "retry"
              /\ trace = <<DispatchEntry(LastUrl),
                           emit_error(LastUrl, "Invalid bunnycdn URL")>>
              /\ Returned
              /\ LastResult = FALSE
              /\ history = hist_before
              /\ pc = "exited" => exit_code = 1

C11_Witness ==
    /\ pc = "exited"
    /\ dispatched = <<"https://iframe.mediadelivery.net/embed/12345/">>
    /\ results = <<FALSE>>
    /\ OfKind("net") = <<>>
    /\ OfKind("error") # <<>>

\* C12: for every url handed to a downloader, a dispatch that sent a request
\* and ended with a failed record has called the download function
\* retry_attempts times, with linear backoff between the calls; with
\* retry_attempts > 1 no such failure is recorded after a single attempt.
C12_FetchFailuresRetried ==
    (Returned /\ LastResult = FALSE /\ retry_attempts > 1
        /\ OfKind("net") # <<>> /\ OfKind("mark") # <<>>) =>
        /\ Len(Calls) = retry_attempts
        /\ Len(Sleeps) = retry_attempts - 1
        /\ \A j \in 1..Len(Sleeps) : Sleeps[j].n = retry_delay * j

ProviderTags ==
    {"bunnycdn", "googledrive_file", "googledrive_folder", "googledocs",
     "dropbox", "generic_media", "unknown"}

Detections == OfKind("detect_url_type")

\* C13: every call of detect_url_type returns one pair, its tag one of the seven
\* provider tags and (unknown, invalid) when the tag is unknown; the calls for
\* one url return the same pair, and no call changes the ledger, its file or
\* the clock.
C13_ClassifierPureTotal ==
    /\ \A i \in 1..Len(Detections) :
          /\ Detections[i].file \in ProviderTags
          /\ Detections[i].info \in {"valid", "invalid"}
          /\ Detections[i].file = "unknown" => Detections[i].info = "invalid"
          /\ \A j \in 1..Len(Detections) :
                Detections[i].key = Detections[j].key => Detections[i] = Detections[j]
    /\ Detections # <<>> =>
          /\ ret = [kind |-> "detect_url_type", value |-> Last(Detections).file,
                    flag |-> Last(Detections).info = "valid"]
          /\ history = hist_before
          /\ history_file = hist_before
          /\ clock = 0
          /\ Len(trace) = Len(Detections)

C13_Witness ==
    /\ Len(Detections) = 3
    /\ Detections[1].file = "unknown"
    /\ Detections[3].info = "invalid"
    /\ history # EmptyLedger
    /\ ~skip_existing

\* the rules of the classifier, in the order of the claim
Rule(k, url) ==
    IF k = 1 THEN Contains(url, EmbedMarker)
    ELSE IF k = 2 THEN GoogleDriveFileMatch(url)
    ELSE IF k = 3 THEN GoogleDriveFolderMatch(url)
    ELSE IF k = 4 THEN GoogleDocsMatch(url)
    ELSE IF k = 5 THEN Contains(Lower(url), "dropbox")
    ELSE IF k = 6 THEN GenericMediaMatch(url)
    ELSE TRUE

TagOfRule ==
    <<"bunnycdn", "googledrive_file", "googledrive_folder", "googledocs",
      "dropbox", "generic_media", "unknown">>

\* the rules each input satisfies
RulesOf == [u \in ClassifierInputs |-> {k \in 1..7 : Rule(k, u)}]

FirstRule(u) == CHOOSE k \in RulesOf[u] : \A m \in RulesOf[u] : k <= m

\* C14: the tag of a url is that of the earliest rule it satisfies, in the
\* order DirectVideo, DriveFile, DriveFolder, GoogleDocsExport, Dropbox,
\* GenericMedia, Unknown.
C14_FirstMatchWins ==
    \A i \in 1..Len(Detections) :
        Detections[i].file = TagOfRule[FirstRule(Detections[i].key)]

C14_Witness ==
    /\ Detections # <<>>
    /\ Detections[1].key = "https://www.Dropbox.com/s/x/report.mp4"
    /\ {5, 6} \subseteq RulesOf[Detections[1].key]
    /\ Detections[1].file = "dropbox"

\* the inputs none of the rules 1-5 takes
LeftToRule6 == {u \in ClassifierInputs : \A k \in 1..5 : k \notin RulesOf[u]}

EndsWithExtension(url) ==
    LET l == Lower(url)
    IN \E x \in MediaExtensions : HasAt(l, Len(l) - Len(x), "." \o x)

\* url holds http:// or https:// and, later, a dot and a known extension, in
\* any letter case
SchemeThenExtension(url) ==
    LET l == Lower(url)
    IN \E scheme \in {"http://", "https://"} :
          \E i \in 1..Len(l) :
              /\ HasAt(l, i, scheme)
              /\ \E x \in MediaExtensions :
                    \E j \in (i + Len(scheme))..Len(l) : HasAt(l, j, "." \o x)

EndingInputs == {u \in LeftToRule6 : EndsWithExtension(u)}
SchemeExtensionInputs == {u \in LeftToRule6 : SchemeThenExtension(u)}

\* C15, as stated: a url that matches none of the rules 1-5 is generic_media
\* exactly when it ends with a known extension; with the extension in the
\* middle only, it is unknown.
C15_GenericIffEndsWithExtension ==
    \A i \in 1..Len(Detections) :
        Detections[i].key \in LeftToRule6 =>
            /\ Detections[i].file = "generic_media" <=> Detections[i].key \in EndingInputs
            /\ Detections[i].key \notin EndingInputs => Detections[i].file = "unknown"

\* C15, amended: a url that matches none of the rules 1-5 is generic_media
\* (and valid) exactly when it holds http:// or https:// followed, anywhere
\* later, by a dot and a known extension, in any letter case; otherwise it is
\* unknown.
C15_GenericIffSchemeThenExtension ==
    \A i \in 1..Len(Detections) :
        Detections[i].key \in LeftToRule6 =>
            /\ Detections[i].file = "generic_media"
                  <=> Detections[i].key \in SchemeExtensionInputs
            /\ Detections[i].file = "generic_media" => Detections[i].info = "valid"
            /\ Detections[i].key \notin SchemeExtensionInputs
                  => Detections[i].file = "unknown"

C15_Witness ==
    /\ Detections # <<>>
    /\ Detections[1].key = "https://example.com/a.MP4?x=1"
    /\ Detections[1].key \in LeftToRule6
    /\ Detections[1].key \notin EndingInputs
    /\ Detections[1].file = "generic_media"

\* what was appended to the list for each matched token, in text order
Found == [i \in 1..Len(OfKind("token")) |-> OfKind("token")[i].file]

FirstIndex(seq, x) == CHOOSE i \in 1..Len(seq) : seq[i] = x /\ \A j \in 1..(i - 1) : seq[j] # x

\* C16: the extracted list holds every url found exactly once, the urls in
\* the order of their first occurrences in the text, and extracting the same
\* text again returns the same list.
C16_ExtractUniqueInOrder ==
    pc = "extracted" =>
        /\ \A i, j \in 1..Len(urls) : i # j => urls[i] # urls[j]
        /\ Range(urls) = Range(Found)
        /\ \A i, j \in 1..Len(urls) :
              i < j => FirstIndex(Found, urls[i]) < FirstIndex(Found, urls[j])
        /\ ret.kind = "extract" => ret.value = urls

C16_Witness ==
    /\ pc = "extracted"
    /\ ret.kind = "extract"
    /\ Len(Found) = 3
    /\ Found[1] = Found[3]
    /\ Found[1] # Found[2]
    /\ urls = <<Found[1], Found[2]>>

\* s without one trailing ")"
StripOneParen(s) == IF Ch(s, Len(s)) = ")" THEN SubSeq(s, 1, Len(s) - 1) ELSE s

\* C17: a token that, once its trailing punctuation is gone, has more ")"
\* than "(" loses exactly one trailing ")"; a token with balanced parentheses
\* loses none.
C17_StripsOneParen ==
    \A i \in 1..Len(OfKind("token")) :
        LET e == OfKind("token")[i]
            url == StripTrailing(e.key, TrailingPunctuation)
        IN e.file = IF Count(url, "(") < Count(url, ")") THEN StripOneParen(url) ELSE url

\* the events of the trace, in order
TraceEvents == SelectSeq(trace, IsEvent)

\* C18: a successful call of a provider downloader (Drive, Docs, Dropbox,
\* generic, DRM and non-DRM video) has emitted Progress events, if any, then
\* exactly one Complete event, nothing after it, and no Error event.
C18_ProgressThenOneComplete ==
    (pc = "done" /\ ret.kind = "return") =>
        /\ Len(OfKind("complete")) = 1
        /\ OfKind("error") = <<>>
        /\ Last(trace).kind = "complete"
        /\ Last(trace).file = ret.value
        /\ \A i \in 1..(Len(TraceEvents) - 1) : TraceEvents[i].kind = "progress"

C18_Witness ==
    /\ pc = "done" /\ ret.kind = "return"
    /\ func = "download_drm_video"
    /\ Len(OfKind("progress")) = 2
    /\ Len(TraceEvents) = 3

\* C19: every Progress event carries a percent between 0 and 100, whatever
\* Content-Length the response declares, whatever chunks arrive (a body
\* longer than declared included) and whatever fragment index and count the
\* media tool reports.
C19_PercentInRange ==
    \A i \in 1..Len(OfKind("progress")) :
        OfKind("progress")[i].n >= 0 /\ OfKind("progress")[i].n <= 100

\* where u was dispatched
DispatchIndex(u) == CHOOSE i \in 1..Len(dispatched) : dispatched[i] = u

\* the url of the batch that is neither the unknown nor the generic one
ThirdUrl == CHOOSE u \in Range(urls) : u \notin {UrlUnknown, UrlGeneric}

\* the run is over, the fetch of the generic url succeeded: exit code 1 and
\* three events, one per url and in the order of the urls: Error for the
\* unknown url, Complete for the fetched file, Complete with the recorded
\* filename for the url with the completed record; no Progress event
EndToEndOutcome ==
    /\ exit_code = 1
    /\ Len(events) = 3
    /\ Len(SelectSeq(events, LAMBDA e : e.kind = "error")) = 1
    /\ Len(SelectSeq(events, LAMBDA e : e.kind = "complete")) = 2
    /\ SelectSeq(events, LAMBDA e : e.kind = "progress") = <<>>
    /\ events[DispatchIndex(UrlUnknown)] = emit_error(UrlUnknown, "Unsupported URL type")
    /\ events[DispatchIndex(UrlGeneric)].kind = "complete"
    /\ events[DispatchIndex(UrlGeneric)].file \in DownloadedNames
    /\ events[DispatchIndex(ThirdUrl)] =
          emit_complete(history[ThirdUrl].filename,
                        PathJoin(DestFolder, history[ThirdUrl].filename))
    /\ history[ThirdUrl].timestamp = 0

EndToEndDone == pc = "exited" /\ results[DispatchIndex(UrlGeneric)] = TRUE

Malformed(file) ==
    \/ JsonType(file) # "dict"
    \/ \E u \in DOMAIN file :
          \/ JsonType(file[u]) # "dict"
          \/ DOMAIN file[u] # {"filename", "status", "timestamp", "folder"}

\* C21: loading the ledger never fails: with the history file absent or
\* malformed (unparsable, or not a JSON object of records) the manager starts
\* with an empty ledger, is_downloaded answers false for every url without
\* raising, and no dispatch raises out of download_video because of the
\* stored state.
C21_LoadTolerant ==
    /\ (pc = "main" /\ Malformed(history_file)) =>
          /\ history = EmptyDict
          /\ \A u \in URLS :
                /\ ~is_downloaded_raises(history, skip_existing, u)
                /\ ~is_downloaded(history, skip_existing, u)
    /\ pc # "raised"

\* C22: whenever mark_downloaded has returned (the dispatch that called it is
\* over: main is between two dispatches or past the last one), the stored
\* ledger equals the ledger in memory, the record just upserted included.
C22_StoredEqualsMemory ==
    (pc \in {"loop", "exited"} /\ trace # <<>> /\ Last(trace).kind = "mark") =>
        /\ history_file = history
        /\ Last(trace).key \in DOMAIN history

Height(token) == DigitsToInt(height_str(token), 0)

\* C23: _get_best_resolution returns one of the <width>x<height> tokens of the
\* playlist, and none of the tokens has a height that is numerically larger;
\* when the playlist has no token it raises instead of returning.
C23_BestResolution ==
    (pc = "done" /\ trace # <<>> /\ Last(trace).kind = "response") =>
        LET tokens == resolution_tokens(Last(trace).file, 1)
        IN IF tokens = <<>>
           THEN ret.kind = "raise" /\ ret.value = NoResolutionsError
           ELSE /\ ret.kind = "return"
                /\ ret.value \in Range(tokens)
                /\ \A t \in Range(tokens) : Height(ret.value) >= Height(t)

\* 1080 is the largest height, "854x480" has the largest height as a string
C23_Witness ==
    /\ pc = "done" /\ trace # <<>> /\ Last(trace).kind = "response"
    /\ Range(resolution_tokens(Last(trace).file, 1))
          = {"854x480", "1920x1080", "1280x720"}
    /\ ret.kind = "return" /\ ret.value = "1920x1080"

\* the calls download_with_retry made, by their position in the trace
AttemptIndexes == {i \in 1..Len(trace) : trace[i].kind = "call"}

\* what the call at position i of the trace did: the entries up to the next call
AttemptOf(i) ==
    LET later == {j \in AttemptIndexes : j > i}
        last == IF later = {} THEN Len(trace)
                ELSE (CHOOSE j \in later : \A k \in later : j <= k) - 1
    IN SubSeq(trace, i + 1, last)

IsNet(e) == e.kind = "net"
IsResponse(e) == e.kind = "response"
Kinds(s) == [k \in 1..Len(s) |-> s[k].kind]
StepsOf(s) == [k \in 1..Len(SelectSeq(s, IsNet)) |-> SelectSeq(s, IsNet)[k].info]

ExtractionFails ==
    \/ ~PageFacts[embed_page].server.found
    \/ ~PageFacts[embed_page].params.found

\* C24: a call of download_drm_video on an embed page without the server id,
\* or without contextId and secret, fails without sending any request (no
\* ping, no activate, no playlist request); a call whose playlist lists no
\* resolution fails without starting the media tool and without a Complete
\* event.
C24_DrmFailsBeforeLaterSteps ==
    \A i \in AttemptIndexes :
        LET att == AttemptOf(i)
        IN /\ ExtractionFails =>
                 /\ trace[i].file # "ok"
                 /\ SelectSeq(att, IsNet) = <<>>
           /\ (\E k \in 1..Len(att) :
                   /\ att[k].kind = "response"
                   /\ ~Contains(att[k].file, "/video.drm")) =>
                 /\ trace[i].file # "ok"
                 /\ \A k \in 1..Len(att) :
                       /\ att[k].kind # "complete"
                       /\ att[k].info # "YoutubeDL.download"

\* both attempts on a page without the server id failed before any request
C24_Witness ==
    /\ pc = "done" /\ ret.kind = "raise"
    /\ embed_page = DrmPageNoServer /\ HAS_YT_DLP
    /\ retry_attempts = 2
    /\ Cardinality(AttemptIndexes) = 2
    /\ OfKind("net") = <<>>

\* C25: a call of download_drm_video that succeeds sends, in this order and
\* once each, the ping (time=0, paused=true, chosen_res=0, hash of
\* secret_contextId_0_true_0), the activate request, the playlist.drm request
\* with contextId and secret, and, after the playlist was received, the fetch
\* of the video url of the selected resolution; Complete comes last.
C25_DrmStepsInOrder ==
    \A i \in AttemptIndexes :
        trace[i].file = "ok" =>
            LET att == AttemptOf(i)
                nets == SelectSeq(att, IsNet)
                body == SelectSeq(att, IsResponse)[1].file
                selected == IF Contains(body, "1920x1080") THEN "1920x1080"
                            ELSE "1280x720"
            IN /\ Len(att) >= 6
               /\ Kinds(SubSeq(att, 1, 5)) = <<"net", "net", "net", "response", "net">>
               /\ Len(nets) = 4
               /\ Last(att).kind = "complete"
               /\ nets[1].file = "https://video-s1.mediadelivery.net/.drm/ctx-1/ping?hash="
                                    \o md5("sec_2_ctx-1_0_true_0")
                                    \o "&time=0&paused=true&chosen_res=0"
               /\ nets[2].file = "https://video-s1.mediadelivery.net/.drm/ctx-1/activate"
               /\ nets[3].file = "https://iframe.mediadelivery.net/ab-cd/playlist.drm"
                                    \o "?contextId=ctx-1&secret=sec_2"
               /\ nets[4].file = "https://iframe.mediadelivery.net/ab-cd/" \o selected
                                    \o "/video.drm?contextId=ctx-1"

C25_Witness ==
    /\ pc = "done" /\ ret.kind = "return"
    /\ embed_page = DrmPagePlainSeparator
    /\ Cardinality(AttemptIndexes) = 1
    /\ \E k \in 1..Len(trace) :
          trace[k].kind = "response" /\ Contains(trace[k].file, "640x360")

\* C27: every call download_with_retry makes of download_drm_video runs the
\* flow from its first step: its requests are the first n of ping, activate,
\* playlist request, fetch, in this order (all four when it succeeds), and on
\* a page where the extraction fails every call fails at the extraction.  No
\* call begins at the step where the call before it failed.
C27_RetryRestartsWholeFlow ==
    \A i \in AttemptIndexes :
        LET steps == StepsOf(AttemptOf(i))
        IN /\ \E n \in 0..Len(DrmSteps) : steps = SubSeq(DrmSteps, 1, n)
           /\ trace[i].file = "ok" => steps = DrmSteps
           /\ (HAS_YT_DLP /\ ~ExtractionFails) => steps # <<>>
           /\ (~HAS_YT_DLP \/ ExtractionFails) => trace[i].file = "early_error"

\* the first call failed at the playlist request, the second one succeeded
C27_Witness ==
    /\ pc = "done" /\ ret.kind = "return"
    /\ Cardinality(AttemptIndexes) = 2
    /\ StepsOf(AttemptOf(1)) = SubSeq(DrmSteps, 1, 3)
    /\ \E i \in AttemptIndexes : i > 1 /\ StepsOf(AttemptOf(i)) = DrmSteps

\* the compatibility table, by url
InTable ==
    \/ urls[1] = UrlDocs /\ google_docs_format \in {"pdf", "docx", "txt", "html"}
    \/ urls[1] = UrlSheet /\ google_docs_format \in {"pdf", "xlsx", "csv"}
    \/ urls[1] = UrlSlides /\ google_docs_format \in {"pdf", "pptx"}

ExportUrl ==
    (IF urls[1] = UrlDocs THEN "https://docs.google.com/document/d/XYZ"
     ELSE IF urls[1] = UrlSheet THEN "https://docs.google.com/spreadsheets/d/S_1"
     ELSE "https://docs.google.com/presentation/d/P-2")
    \o "/export?format=" \o google_docs_format

\* C26: every call of download_google_docs with a (doc-type, format) pair
\* outside the table fails without a request, and the error raised in the end
\* is that of the rejection; with a pair inside the table every call requests
\* https://docs.google.com/<doc-type>/d/<id>/export?format=<format>.
C26_DocsExportTable ==
    /\ \A i \in AttemptIndexes :
          LET nets == SelectSeq(AttemptOf(i), IsNet)
          IN IF InTable
             THEN /\ trace[i].file # "early_error"
                  /\ Len(nets) = 1
                  /\ nets[1].file = ExportUrl
             ELSE /\ trace[i].file = "early_error"
                  /\ nets = <<>>
    /\ (pc = "done" /\ ~InTable) =>
          /\ ret.kind = "raise" /\ ret.value = InvalidDocsUrlError
          /\ Cardinality(AttemptIndexes) = retry_attempts

\* csv for a document, rejected twice
C26_Witness ==
    /\ pc = "done" /\ ret.kind = "raise"
    /\ urls[1] = UrlDocs /\ google_docs_format = "csv"
    /\ retry_attempts = 2
    /\ Cardinality(AttemptIndexes) = 2
    /\ OfKind("net") = <<>>

\* C28: when download_video returns for a url classified unknown, it has
\* emitted the Error "Unsupported URL type" for that url and returned False,
\* whatever the ledger held and whatever the skip setting.
C28_UnknownNeverSucceeds ==
    (Returned /\ url_type(LastUrl) = "unknown") =>
        /\ LastResult = FALSE
        /\ trace = <<DispatchEntry(LastUrl),
                     emit_error(LastUrl, "Unsupported URL type")>>

\* download_video calls that have not returned
InFlight == Len(dispatched) - Len(results)

StartsWith(s, t) == Len(t) <= Len(s) /\ SubSeq(s, 1, Len(t)) = t

QueryOf(u) ==
    LET h == Find(u, "#", 1)
        front == IF h = 0 THEN u ELSE SubSeq(u, 1, h - 1)
        q == Find(front, "?", 1)
    IN IF q = 0 THEN "" ELSE SubSeq(front, q + 1, Len(front))

\* p is one of the "&"-separated parameters of the query of u
HasParam(u, p) == Contains("&" \o QueryOf(u) \o "&", "&" \o p \o "&")

\* C30: every url download_dropbox_file requests has the query parameter
\* dl=1 and no query parameter dl=0.
C30_DropboxForcesDirect ==
    \A i \in 1..Len(trace) :
        (trace[i].kind = "net" /\ trace[i].info = "download_dropbox_file") =>
            /\ HasParam(trace[i].file, "dl=1")
            /\ ~HasParam(trace[i].file, "dl=0")

\* C31: two consecutive progress reports of a transfer are at least half a
\* second apart.
C31_ProgressThrottled ==
    LET r == SelectSeq(trace, IsReport)
    IN \A i \in 1..(Len(r) - 1) : r[i + 1].n - r[i].n >= 5

\* C32: with skip_existing set, no step of a batch run changes or removes a
\* ledger record whose status is completed.
C32_CompletedRecordStable ==
    [][skip_existing =>
          \A u \in DOMAIN history :
              history[u].status = "completed" =>
                  /\ u \in DOMAIN history'
                  /\ history'[u] = history[u]]_vars

\* the first url of the batch had a completed record and was dispatched, the
\* second was then downloaded and recorded; the first record is as it was
C32_Witness ==
    /\ Returned
    /\ Len(dispatched) = 2
    /\ HadCompleted(dispatched[1])
    /\ history[dispatched[1]] = hist_before[dispatched[1]]
    /\ dispatched[2] \notin DOMAIN hist_before
    /\ dispatched[2] \in DOMAIN history
    /\ history[dispatched[2]].status = "completed"

\* C33: the ledger changes only in a step that ran mark_downloaded for the url
\* being dispatched (the step logged the write and the new content); that step
\* adds or replaces the record of that url alone; no step removes a record;
\* and a network request for a url is sent only after the dispatch of the url
\* began and found no skip in the ledger as it was then.
C33_Touched == {u \in DOMAIN history' : u \notin DOMAIN history \/ history'[u] # history[u]}

C33_LedgerFrame ==
    [][/\ DOMAIN history \subseteq DOMAIN history'
       /\ \A u \in C33_Touched :
             /\ idx <= Len(urls) /\ u = CurUrl
             /\ writes' = Append(writes, history')
             /\ Last(trace').kind = "mark" /\ Last(trace').key = u
       /\ history' # history => C33_Touched # {}
       /\ \A i \in 1..Len(trace') :
             IsNet(trace'[i]) =>
                /\ i > 1
                /\ trace'[1] = DispatchEntry(trace'[i].key)
                /\ trace'[i].key = Last(dispatched')
                /\ ~is_downloaded(hist_before', skip_existing, trace'[i].key)]_vars

\* a download sent requests and wrote the record of its url, while the ledger
\* held the record of another url, which is as it was
C33_Witness ==
    /\ Returned
    /\ \E i \in 1..Len(trace) : IsNet(trace[i])
    /\ Last(trace).kind = "mark"
    /\ LastUrl \in DOMAIN history
    /\ (LastUrl \notin DOMAIN hist_before \/ history[LastUrl] # hist_before[LastUrl])
    /\ \E u \in DOMAIN hist_before \ {LastUrl} : history[u] = hist_before[u]

IsTerminal(e) == e.kind \in {"complete", "error"}

\* a call of download_video is over: it returned to main, or raised
DispatchEnded == pc \in {"loop", "exited", "raised"} /\ dispatched # <<>>

\* C34: each dispatched url produces exactly one terminal event (Complete or
\* Error), the last event of its dispatch; while attempts are retried no
\* terminal event has been emitted; over the run there are as many terminal
\* events as urls dispatched.
C34_OneTerminalEvent ==
    LET shown == SelectSeq(trace, IsEvent)
        terminal == SelectSeq(trace, IsTerminal)
    IN /\ pc = "retry" => terminal = <<>>
       /\ DispatchEnded =>
             /\ Len(terminal) = 1
             /\ IsTerminal(Last(shown))
             /\ Len(SelectSeq(events, IsTerminal)) = Len(dispatched)

\* C35: the ledger write is the last step of the dispatch of a url that
\* reached a downloader: the write comes right after the terminal event
\* (Complete for a completed record, Error for a failed one), nothing follows
\* it in the dispatch, and the terminal event is the last event emitted so far.
C35_LedgerWriteLast ==
    LET marks == {i \in 1..Len(trace) : trace[i].kind = "mark"}
    IN /\ pc = "retry" => marks = {}
       /\ \A i \in marks :
             /\ i = Len(trace)
             /\ i > 1
             /\ IsTerminal(trace[i - 1])
             /\ trace[i - 1].kind = "complete" <=> trace[i].info = "completed"
             /\ trace[i].key = LastUrl
             /\ Last(events) = trace[i - 1]
             /\ Last(writes) = history
       /\ (Returned /\ Calls # <<>>) => marks # {}

\* a download that reported progress, failed, was retried and succeeded: the
\* Complete event, then the completed record
C35_Witness ==
    /\ Returned
    /\ Len(Calls) = 2
    /\ \E i \in 1..Len(trace) : trace[i].kind = "progress"
    /\ Len(trace) > 2
    /\ trace[Len(trace) - 1].kind = "complete"
    /\ Last(trace).kind = "mark" /\ Last(trace).info = "completed"
    /\ history[LastUrl].status = "completed"

\* the embed page of the url being downloaded has no title tag
Untitled == embed_page # NoPage /\ ~title_search(embed_page, 1).found

\* C37: for an embed page without a title tag format_filename builds the
\* filename from the guid of the embed url instead of raising, and no
\* download fails with the error of the missing title.
C37_TitleOptional ==
    /\ Untitled =>
          /\ ~FileNames[LastUrl][embed_page].raised
          /\ FileNames[LastUrl][embed_page].value = GuidOf[LastUrl] \o ".mp4"
    /\ last_error # NoneTitleError

\* C38: whatever retry_attempts the config file gives, download_with_retry
\* has called the wrapped operation at least once when it returns or raises,
\* and the error it raises is the error of a failed call of the operation.
C38_AtLeastOneAttempt ==
    pc = "done" =>
        /\ Calls # <<>>
        /\ ret.kind = "raise" =>
              /\ FailedCalls # <<>>
              /\ ret.value # RaiseNoneError

\* the ledger held a failed record of u when the dispatch of u began
HadFailed(u) == u \in DOMAIN hist_before /\ hist_before[u].status = "failed"

\* the dispatch called a download function or sent a request
ProviderInvoked == \E i \in 1..Len(trace) : trace[i].kind \in {"call", "net"}

\* C36: the dispatch of a url with a failed record is not a skip and goes to
\* the downloader of its provider again; when it succeeds the record of the
\* url is a completed one with the new filename and the skip check answers
\* true; and in the next run of the program the url is skipped.
C36_FailedRecordRetried ==
    /\ (Returned /\ HadFailed(LastUrl)) =>
          /\ ~SkippedAsNoOp(LastUrl)
          /\ ProviderInvoked
          /\ LastResult = TRUE =>
                /\ history[LastUrl].status = "completed"
                /\ history[LastUrl].filename = Last(events).file
                /\ is_downloaded(history, skip_existing, LastUrl)
    /\ (Returned /\ twin.run = 3) =>
          LET k == Len(dispatched)
          IN (twin.history # twin.stored
                 /\ LastUrl \in DOMAIN twin.history
                 /\ twin.history[LastUrl].status = "failed"
                 /\ twin.results[k] = TRUE) => SkippedAsNoOp(LastUrl)

\* the statement for a configuration that lets download_with_retry call the
\* download function
C36_WithAnAttempt == retry_attempts >= 1 => C36_FailedRecordRetried

\* a url with a failed record was downloaded in the first run and is skipped
\* in the second
C36_Rerun ==
    /\ Returned /\ twin.run = 3
    /\ HadCompleted(LastUrl)
    /\ LastUrl \in DOMAIN twin.history
    /\ twin.history[LastUrl].status = "failed"
    /\ twin.results[Len(dispatched)] = TRUE
    /\ SkippedAsNoOp(LastUrl)

\* the urls download_dropbox_file asked for
DropboxRequests ==
    {trace[i].file : i \in {j \in 1..Len(trace) : trace[j].kind = "net"}}

\* C39: the url download_dropbox_file requests is a fixed point of the
\* rewrite of the dl parameter: rewriting it once more returns it unchanged.
C39_NormalizationIdempotent ==
    func = "download_dropbox_file" =>
        \A direct \in DropboxRequests : dropbox_direct_url(direct) = direct

\* the same for the share links that do not hold both ?dl=0 and &dl=0
C39_SingleZero ==
    (func = "download_dropbox_file"
        /\ ~(Contains(urls[1], "?dl=0") /\ Contains(urls[1], "&dl=0"))) =>
        \A direct \in DropboxRequests : dropbox_direct_url(direct) = direct

====
